---- MODULE Spec2Model ----
(***************************************************************************)
(* A model of the hmicv-a media tools: the spatial run-length encoder and  *)
(* temporal merger of the converter (src/con.cpp), the text player that    *)
(* replays the commands (src/unnamed/part_000), the binary container       *)
(* writer (src/unnamed/part_000) and its memory-mapped reader and players  *)
(* (src/P/play.cpp, src/P/pre/play.cpp).                                   *)
(*                                                                         *)
(* Strings are sequences of one-character strings, so that formatting and  *)
(* parsing are computed character by character as the code does.           *)
(***************************************************************************)
EXTENDS Integers, Sequences, FiniteSets, TLC

VARIABLES
    \* ---- converter, spatial pass (con.cpp main 705-742) ----
    sp_w, sp_h,          \* frame width and height
    num_threads,         \* std::thread::hardware_concurrency()
    frame_pixels,        \* frames_data[frame_idx]: Seq of RGBA, row-major
    thread_results,      \* per worker: its local map
    finished,            \* the workers that have returned
    frame_commands,      \* merged map RGBA -> Seq(Command) for the frame
    surface,             \* the buffer render_frame replays onto
    sp_pc,
    \* ---- converter, build_hmic_data, and the text player's parser ----
    tm_w, tm_h, tm_fps,  \* build_hmic_data's w, h, fps
    n_frames,
    all_frame_commands,  \* main's frame_commands, one map per frame
    merged_commands,     \* per frame: the set of Commands folded away
    temporal_commands,   \* range string -> color -> command texts
    hmic_data,           \* the text returned, as its lines
    video_info,          \* the player's VideoInfo after parse_hmicav
    frames,              \* the player's frames: per frame color -> texts
    tm_pc,
    range_frames,        \* a frame list given to frames_to_range_string
    range_str,           \* the range string it returned
    range_parsed,        \* what parse_frame_range made of the string
    \* ---- audio text codec: compress_channel_data, parse_audio_channel ----
    au_samples,          \* the channel's samples, in units of 1e-7
    au_text,             \* the string compress_channel_data returned
    au_decoded,          \* the vector parse_audio_channel filled
    au_pc,
    \* ---- binary container: writer (part_000) and mapped reader (play.cpp) ----
    bin_in,              \* write_hmicfast_binary's arguments
    bin_file,            \* the bytes of the output file
    fast,                \* FastPlayerState's mapping fields after load
    frame_cache,         \* per frame: the decompressed buffer, <<>> if null
    frame_cached,        \* per frame: the cached flag
    returned,            \* what the last get_frame_data call returned
    damage,              \* what happened to the file after it was written
    decode_errors,       \* the frames "Decompression error" was reported for
    screen_surface,      \* the pixels of the window's surface, <<>> blank
    last_frame,          \* main's last_frame
    bin_pc,
    \* ---- players: control loop and audio callback (play.cpp, part_000) ----
    player,              \* what loading fixed: mode, header fields, has_audio
    playing, quit,
    current_frame,
    elapsed_ms,          \* now - start_time at the control loop's last look
    target_audio_sample, \* std::atomic, published by the control thread
    audio_sample_pos,    \* the callback's cursor (video-led players)
    audio_sample_index,  \* the callback's cursor (audio-led player)
    audio_frame_position,\* std::atomic, published by the callback
    event,               \* the key handled last in this pass of the loop
    ctl_pc,              \* where the control loop is
    cb_pc,               \* where the audio callback is
    cb_target, cb_drift, \* the callback's locals target and drift
    cb_i,                \* the callback's loop counter i
    cb_ops,              \* what the running invocation has done that can block
    audio_device,        \* the SDL_AudioDeviceID, 0 when none is open
    mapped_data,         \* the file is mapped and the buffers are allocated
    oob_read             \* a read outside the frames or the samples happened

spVars == <<sp_w, sp_h, num_threads, frame_pixels, thread_results, finished,
            frame_commands, surface, sp_pc>>

rgVars == <<range_frames, range_str, range_parsed>>

tmVars == <<tm_w, tm_h, tm_fps, n_frames, all_frame_commands, merged_commands,
            temporal_commands, hmic_data, video_info, frames, tm_pc, rgVars>>

auVars == <<au_samples, au_text, au_decoded, au_pc>>

binVars == <<bin_in, bin_file, fast, frame_cache, frame_cached, returned,
             damage, decode_errors, screen_surface, last_frame, bin_pc>>

plVars == <<player, playing, quit, current_frame, elapsed_ms,
            target_audio_sample, audio_sample_pos, audio_sample_index,
            audio_frame_position, event, ctl_pc, cb_pc, cb_target, cb_drift,
            cb_i, cb_ops, audio_device, mapped_data, oob_read>>

vars == <<spVars, tmVars, auVars, binVars, plVars>>

\* the parts of the state a run of one component does not touch
SpatialIdle ==
    /\ sp_w = 0 /\ sp_h = 0 /\ num_threads = 0 /\ frame_pixels = <<>>
    /\ thread_results = <<>> /\ finished = {} /\ frame_commands = <<>>
    /\ surface = <<>> /\ sp_pc = "idle"

TemporalIdle ==
    /\ tm_w = 0 /\ tm_h = 0 /\ tm_fps = 0 /\ n_frames = 0
    /\ all_frame_commands = <<>> /\ merged_commands = <<>>
    /\ temporal_commands = <<>> /\ hmic_data = <<>> /\ video_info = <<>>
    /\ frames = <<>> /\ tm_pc = "idle"
    /\ range_frames = <<>> /\ range_str = <<>> /\ range_parsed = <<>>

AudioIdle ==
    /\ au_samples = <<>> /\ au_text = <<>> /\ au_decoded = <<>>
    /\ au_pc = "idle"

BinaryIdle ==
    /\ bin_in = <<>> /\ bin_file = <<>> /\ fast = <<>> /\ frame_cache = <<>>
    /\ frame_cached = <<>> /\ returned = <<>> /\ damage = <<>>
    /\ decode_errors = {} /\ screen_surface = <<>> /\ last_frame = -1
    /\ bin_pc = "idle"

PlayerIdle ==
    /\ player = <<>> /\ playing = FALSE /\ quit = FALSE
    /\ current_frame = 0 /\ elapsed_ms = 0 /\ target_audio_sample = 0
    /\ audio_sample_pos = 0 /\ audio_sample_index = 0
    /\ audio_frame_position = 0 /\ event = "none" /\ ctl_pc = "idle"
    /\ cb_pc = "idle" /\ cb_target = 0 /\ cb_drift = 0 /\ cb_i = 0
    /\ cb_ops = {} /\ audio_device = 0 /\ mapped_data = FALSE
    /\ oob_read = FALSE

(***************************************************************************)
(* Bounds of the model.                                                    *)
(***************************************************************************)
MaxW == 3
MaxH == 3
MaxPixels == 6
MaxThreads == 3
MaxSamples == 6
MaxFrames == 4
MaxBinFrames == 2
\* the longest clip whose text is garbled before it is parsed
MaxGarbledFrames == 1
MaxFrameNo == 11
\* the frame sizes <<w, h>> of the clips the temporal pass is run on: one
\* pixel, one row of two (runs and single pixels), one column of two (two
\* independent rows)
ClipDims == {<<1, 1>>, <<2, 1>>, <<1, 2>>}

(***************************************************************************)
(* Small helpers.                                                          *)
(***************************************************************************)
Max2(a, b) == IF a > b THEN a ELSE b
Min2(a, b) == IF a < b THEN a ELSE b
AbsInt(a) == IF a < 0 THEN -a ELSE a

RECURSIVE SeqSum(_)
SeqSum(s) == IF s = <<>> THEN 0 ELSE Head(s) + SeqSum(Tail(s))

RECURSIVE ConcatAll(_)
\* concatenation of a sequence of sequences
ConcatAll(ss) == IF ss = <<>> THEN <<>> ELSE Head(ss) \o ConcatAll(Tail(ss))

\* std::string::find(c) for a character: 0-based position, or -1 (npos)
RECURSIVE FindFrom(_, _, _)
FindFrom(s, c, i) ==
    IF i >= Len(s) THEN -1
    ELSE IF s[i + 1] = c THEN i
    ELSE FindFrom(s, c, i + 1)

Find(s, c) == FindFrom(s, c, 0)

\* std::string::substr(pos, n) and substr(pos), 0-based
Substr(s, pos, n) == SubSeq(s, pos + 1, Min2(Len(s), pos + n))
SubstrFrom(s, pos) == SubSeq(s, pos + 1, Len(s))

\* s.find(prefix) == 0
StartsWith(s, p) == Len(s) >= Len(p) /\ SubSeq(s, 1, Len(p)) = p

DigitChar == <<"0", "1", "2", "3", "4", "5", "6", "7", "8", "9">>
IsDigit(c) == c \in {DigitChar[i] : i \in 1..10}
DigitVal(c) == (CHOOSE i \in 1..10 : DigitChar[i] = c) - 1

RECURSIVE ToStringNat(_)
ToStringNat(n) ==
    IF n < 10 THEN <<DigitChar[n + 1]>>
    ELSE ToStringNat(n \div 10) \o <<DigitChar[(n % 10) + 1]>>

\* std::to_string(int)
to_string(n) == IF n < 0 THEN <<"-">> \o ToStringNat(-n) ELSE ToStringNat(n)

RECURSIVE StoiDigits(_, _, _)
\* the digits std::stoi consumes from 0-based position i on: <<value, count>>
StoiDigits(s, i, acc) ==
    IF i < Len(s) /\ IsDigit(s[i + 1])
    THEN StoiDigits(s, i + 1, <<acc[1] * 10 + DigitVal(s[i + 1]), acc[2] + 1>>)
    ELSE acc

\* std::stoi: optional sign, then digits up to the first non-digit;
\* ok = FALSE is the std::invalid_argument it throws on no digits
stoi(s) ==
    LET neg == Len(s) >= 1 /\ s[1] = "-"
        pos == IF Len(s) >= 1 /\ s[1] \in {"-", "+"} THEN 1 ELSE 0
        d == StoiDigits(s, pos, <<0, 0>>)
    IN  [ok |-> d[2] > 0, val |-> IF neg THEN -d[1] ELSE d[1]]

(***************************************************************************)
(* Colors: struct RGBA and its ordering (the std::map key order).          *)
(***************************************************************************)
Red == <<255, 0, 0, 255>>
Blue == <<0, 0, 255, 255>>
Colors == {Red, Blue}
\* what a read past the end of frame_pixels may return
Stray == <<0, 0, 0, 0>>
GarbageColors == {Stray, Red}

RGBALess(a, b) ==
    IF a[1] # b[1] THEN a[1] < b[1]
    ELSE IF a[2] # b[2] THEN a[2] < b[2]
    ELSE IF a[3] # b[3] THEN a[3] < b[3]
    ELSE a[4] < b[4]

RECURSIVE SortColors(_)
\* the keys of a std::map<RGBA, ...> in iteration order
SortColors(S) ==
    IF S = {} THEN <<>>
    ELSE LET m == CHOOSE c \in S : \A d \in S \ {c} : RGBALess(c, d)
         IN  <<m>> \o SortColors(S \ {m})

(***************************************************************************)
(* SpatialEncoder: process_frame_rows_parallel.                            *)
(***************************************************************************)
RECURSIVE RunLength(_, _, _, _, _)
\* a mutant of RunLength: a run is cut at two pixels
RunLengthPairs(mem, w, y, x, run_length) ==
    IF x + run_length < w /\ run_length < 2
       /\ mem[y * w + x + run_length + 1] = mem[y * w + x + 1]
    THEN 2
    ELSE run_length

\* the inner while loop: extend the run while the next pixel has the color
RunLength(mem, w, y, x, run_length) ==
    IF x + run_length < w /\ mem[y * w + x + run_length + 1] = mem[y * w + x + 1]
    THEN RunLength(mem, w, y, x, run_length + 1)
    ELSE run_length

\* a mutant of CmdString: the run's end column written 0-based
CmdStringEndZeroBased(x, end_x, y, run_length) ==
    IF run_length = 1
    THEN <<"P", "=">> \o to_string(x + 1) \o <<"x">> \o to_string(y + 1)
    ELSE <<"P", "L", "=">> \o to_string(x + 1) \o <<"x">> \o to_string(y + 1)
         \o <<"-">> \o to_string(end_x) \o <<"x">> \o to_string(y + 1)

\* the command text: "P=XxY" or "PL=XxY-X2xY", 1-based
CmdString(x, end_x, y, run_length) ==
    IF run_length = 1
    THEN <<"P", "=">> \o to_string(x + 1) \o <<"x">> \o to_string(y + 1)
    ELSE <<"P", "L", "=">> \o to_string(x + 1) \o <<"x">> \o to_string(y + 1)
         \o <<"-">> \o to_string(end_x + 1) \o <<"x">> \o to_string(y + 1)

RECURSIVE ScanRow(_, _, _, _)
\* one row, left to right: the sequence of <<color, Command>> pushed
ScanRow(mem, w, y, x) ==
    IF x >= w THEN <<>>
    ELSE LET pixel_color == mem[y * w + x + 1]
             run_length == RunLength(mem, w, y, x, 1)
             end_x == x + run_length - 1
             c == [cmd |-> CmdString(x, end_x, y, run_length),
                   x |-> x, end_x |-> end_x, y |-> y]
         IN  <<<<pixel_color, c>>>> \o ScanRow(mem, w, y, x + run_length)

RECURSIVE ScanRows(_, _, _, _)
ScanRows(mem, w, y, end_row) ==
    IF y >= end_row THEN <<>>
    ELSE ScanRow(mem, w, y, 0) \o ScanRows(mem, w, y + 1, end_row)

\* a std::map<RGBA, std::vector<Command>> built by push_back in order
BucketByColor(pushed) ==
    LET keys == {pushed[i][1] : i \in 1..Len(pushed)}
    IN  [c \in keys |->
            LET idx == SelectSeq([i \in 1..Len(pushed) |-> i],
                                 LAMBDA i : pushed[i][1] = c)
            IN  [k \in 1..Len(idx) |-> pushed[idx[k]][2]]]

process_frame_rows_parallel(mem, w, h, start_row, end_row) ==
    BucketByColor(ScanRows(mem, w, start_row, end_row))

(***************************************************************************)
(* The row partition and merge of main (con.cpp 715-738).                  *)
(***************************************************************************)
RowsPerChunk(h, n) == Max2(1, h \div n)
StartRow(t, h, n) == t * RowsPerChunk(h, n)
\* a mutant of EndRow: the last worker does not take the remaining rows
EndRowNoRemainder(t, h, n) == (t + 1) * RowsPerChunk(h, n)
EndRow(t, h, n) == IF t = n - 1 THEN h ELSE (t + 1) * RowsPerChunk(h, n)

MapGet(m, c) == IF c \in DOMAIN m THEN m[c] ELSE <<>>

\* "Merge results": every worker's buckets appended in worker order
MergeResults(results, n) ==
    LET keys == UNION {DOMAIN results[t] : t \in 0..(n - 1)}
    IN  [c \in keys |-> ConcatAll([k \in 1..n |-> MapGet(results[k - 1], c)])]

(***************************************************************************)
(* The text player's renderer: draw_pixel, draw_line, render_frame.        *)
(***************************************************************************)
Blank == <<0, 0, 0, 255>>

BlankSurface(w, h) == [w |-> w, h |-> h, px |-> [i \in 1..(w * h) |-> Blank]]

draw_pixel(surf, x, y, color) ==
    IF x < 0 \/ x >= surf.w \/ y < 0 \/ y >= surf.h THEN surf
    ELSE [surf EXCEPT !.px[y * surf.w + x + 1] = color]

RECURSIVE DrawHoriz(_, _, _, _, _)
DrawHoriz(surf, x, x2, y, color) ==
    IF x > x2 THEN surf
    ELSE DrawHoriz(draw_pixel(surf, x, y, color), x + 1, x2, y, color)

RECURSIVE Bresenham(_, _, _, _, _, _, _)
Bresenham(surf, x1, y1, x2, y2, err, color) ==
    LET dx == AbsInt(x2 - x1)
        dy == AbsInt(y2 - y1)
        sx == IF x1 < x2 THEN 1 ELSE -1
        sy == IF y1 < y2 THEN 1 ELSE -1
        s1 == draw_pixel(surf, x1, y1, color)
        e2 == 2 * err
        errA == IF e2 > -dy THEN err - dy ELSE err
        nx == IF e2 > -dy THEN x1 + sx ELSE x1
        errB == IF e2 < dx THEN errA + dx ELSE errA
        ny == IF e2 < dx THEN y1 + sy ELSE y1
    IN  IF x1 = x2 /\ y1 = y2 THEN s1
        ELSE Bresenham(s1, nx, ny, x2, y2, errB, color)

draw_line(surf, x1, y1, x2, y2, color) ==
    IF y1 = y2 THEN DrawHoriz(surf, x1, x2, y1, color)
    ELSE Bresenham(surf, x1, y1, x2, y2, AbsInt(x2 - x1) - AbsInt(y2 - y1), color)

\* one command line of render_frame
RenderCommand(surf, color, cmd) ==
    IF StartsWith(cmd, <<"P", "L", "=">>)
    THEN LET eq == Find(cmd, "=")
             dash == FindFrom(cmd, "-", eq)
             start_str == Substr(cmd, eq + 1, dash - eq - 1)
             end_str == SubstrFrom(cmd, dash + 1)
             x_pos1 == Find(start_str, "x")
             x1 == stoi(Substr(start_str, 0, x_pos1)).val - 1
             y1 == stoi(SubstrFrom(start_str, x_pos1 + 1)).val - 1
             x_pos2 == Find(end_str, "x")
             x2 == stoi(Substr(end_str, 0, x_pos2)).val - 1
             y2 == stoi(SubstrFrom(end_str, x_pos2 + 1)).val - 1
         IN  draw_line(surf, x1, y1, x2, y2, color)
    ELSE IF StartsWith(cmd, <<"P", "=">>)
    THEN LET eq == Find(cmd, "=")
             pos_str == SubstrFrom(cmd, eq + 1)
             x_pos == Find(pos_str, "x")
             x == stoi(Substr(pos_str, 0, x_pos)).val - 1
             y == stoi(SubstrFrom(pos_str, x_pos + 1)).val - 1
         IN  draw_pixel(surf, x, y, color)
    ELSE surf

RECURSIVE RenderList(_, _, _)
RenderList(surf, color, cmds) ==
    IF cmds = <<>> THEN surf
    ELSE RenderList(RenderCommand(surf, color, Head(cmds)), color, Tail(cmds))

RECURSIVE RenderColors(_, _, _)
RenderColors(surf, commands, keys) ==
    IF keys = <<>> THEN surf
    ELSE RenderColors(RenderList(surf, Head(keys), commands[Head(keys)]),
                      commands, Tail(keys))

\* render_frame on a Frame whose commands map holds the command texts
render_frame(surf, commands) ==
    RenderColors(surf, commands, SortColors(DOMAIN commands))

\* the command texts of a map of Commands
CmdTexts(fc) == [c \in DOMAIN fc |-> [k \in 1..Len(fc[c]) |-> fc[c][k].cmd]]

(***************************************************************************)
(* Specification of the spatial pass on one frame.                         *)
(***************************************************************************)
SpatialInit ==
    /\ sp_w \in 1..MaxW
    /\ sp_h \in 1..MaxH
    /\ sp_w * sp_h <= MaxPixels
    /\ num_threads \in 1..MaxThreads
    /\ frame_pixels \in [1..(sp_w * sp_h) -> Colors]
    /\ thread_results = [t \in 0..(num_threads - 1) |-> <<>>]
    /\ finished = {}
    /\ frame_commands = <<>>
    /\ surface = BlankSurface(sp_w, sp_h)
    /\ sp_pc = "workers"
    /\ TemporalIdle /\ AudioIdle /\ BinaryIdle /\ PlayerIdle

\* one worker thread running process_frame_rows_parallel on its row range;
\* rows at or past h are read past the end of the pixel vector
Worker(t) ==
    /\ sp_pc = "workers"
    /\ t \notin finished
    /\ LET s == StartRow(t, sp_h, num_threads)
           e == EndRow(t, sp_h, num_threads)
           inside == sp_w * sp_h
           reach == Max2(inside, e * sp_w)
       IN  \E g \in [(inside + 1)..reach -> GarbageColors] :
              LET mem == [i \in 1..reach |->
                            IF i <= inside THEN frame_pixels[i] ELSE g[i]]
              IN  thread_results' =
                    [thread_results EXCEPT
                       ![t] = process_frame_rows_parallel(mem, sp_w, sp_h, s, e)]
    /\ finished' = finished \cup {t}
    /\ UNCHANGED <<sp_w, sp_h, num_threads, frame_pixels, frame_commands,
                   surface, sp_pc, tmVars, auVars, binVars, plVars>>

\* join, then the single-threaded merge
Merge ==
    /\ sp_pc = "workers"
    /\ finished = 0..(num_threads - 1)
    /\ frame_commands' = MergeResults(thread_results, num_threads)
    /\ sp_pc' = "merged"
    /\ UNCHANGED <<sp_w, sp_h, num_threads, frame_pixels, thread_results,
                   finished, surface, tmVars, auVars, binVars, plVars>>

\* the player replays the frame's commands onto a blank w x h buffer
Replay ==
    /\ sp_pc = "merged"
    /\ surface' = render_frame(BlankSurface(sp_w, sp_h), CmdTexts(frame_commands))
    /\ sp_pc' = "rendered"
    /\ UNCHANGED <<sp_w, sp_h, num_threads, frame_pixels, thread_results,
                   finished, frame_commands, tmVars, auVars, binVars, plVars>>

SpatialNext ==
    \/ \E t \in 0..(num_threads - 1) : Worker(t)
    \/ Merge
    \/ Replay

SpecSpatial == SpatialInit /\ [][SpatialNext]_vars

(***************************************************************************)
(* Properties of the spatial pass.                                         *)
(***************************************************************************)
\* every <<color, index>> of a command of the map
CommandKeys(fc) == UNION {{<<c, k>> : k \in 1..Len(fc[c])} : c \in DOMAIN fc}

\* how many commands of the frame cover pixel (x, y)
CoverCount(fc, x, y) ==
    Cardinality({p \in CommandKeys(fc) :
                    /\ fc[p[1]][p[2]].y = y
                    /\ fc[p[1]][p[2]].x <= x
                    /\ x <= fc[p[1]][p[2]].end_x})

\* C1: replaying every P/PL command the spatial encoder emitted for a frame
\* onto a blank w x h buffer gives back the frame's pixels exactly.
C1_RoundTrip == sp_pc = "rendered" => surface.px = frame_pixels

C1_Witness ==
    /\ sp_pc = "rendered"
    /\ sp_w = 2 /\ sp_h = 2 /\ num_threads = 2
    /\ frame_pixels = <<Red, Red, Blue, Red>>

\* C2: after the merge, the command spans of all colors cover every pixel
\* of every row 0..h-1 exactly once.
C2_Coverage ==
    sp_pc \in {"merged", "rendered"} =>
        \A y \in 0..(sp_h - 1) : \A x \in 0..(sp_w - 1) :
            CoverCount(frame_commands, x, y) = 1

C2_Witness ==
    /\ sp_pc = "merged"
    /\ sp_h = 3 /\ num_threads = 2 /\ sp_w = 2
    /\ Red \in DOMAIN frame_commands /\ Blue \in DOMAIN frame_commands

(***************************************************************************)
(* Audio text codec.  A float sample is an integer count of 1e-7, so that  *)
(* epsilon (1e-5) is 100 and a value printed with six decimals is a        *)
(* multiple of 10.                                                         *)
(***************************************************************************)
Epsilon == 100

\* operator<< of a float under std::fixed << std::setprecision(6)
FormatFixed6(v) ==
    LET r == (AbsInt(v) + 5) \div 10
        int_part == r \div 1000000
        frac == r % 1000000
        digits == [k \in 1..6 |-> DigitChar[((frac \div (10 ^ (6 - k))) % 10) + 1]]
    IN  (IF v < 0 THEN <<"-">> ELSE <<>>)
        \o ToStringNat(int_part) \o <<".">> \o digits

\* std::stof on sign, digits, an optional point and digits
stof(s) ==
    LET neg == Len(s) >= 1 /\ s[1] = "-"
        pos == IF Len(s) >= 1 /\ s[1] \in {"-", "+"} THEN 1 ELSE 0
        ip == StoiDigits(s, pos, <<0, 0>>)
        dot == pos + ip[2]
        fp == IF dot < Len(s) /\ s[dot + 1] = "."
              THEN StoiDigits(s, dot + 1, <<0, 0>>) ELSE <<0, 0>>
        mag == ip[1] * 10000000
               + (IF fp[2] <= 7 THEN fp[1] * (10 ^ (7 - fp[2]))
                  ELSE fp[1] \div (10 ^ (fp[2] - 7)))
    IN  [ok |-> ip[2] + fp[2] > 0, val |-> IF neg THEN -mag ELSE mag]

RECURSIVE AudioRunLengthChained(_, _, _, _)
\* a mutant of AudioRunLength: each sample is compared with its predecessor
AudioRunLengthChained(samples, i, value, run_length) ==
    IF i + run_length < Len(samples)
       /\ AbsInt(samples[i + run_length + 1] - samples[i + run_length]) < Epsilon
    THEN AudioRunLengthChained(samples, i, value, run_length + 1)
    ELSE run_length

RECURSIVE AudioRunLength(_, _, _, _)
\* the inner while loop of compress_channel_data
AudioRunLength(samples, i, value, run_length) ==
    IF i + run_length < Len(samples)
       /\ AbsInt(samples[i + run_length + 1] - value) < Epsilon
    THEN AudioRunLength(samples, i, value, run_length + 1)
    ELSE run_length

compress_channel_data(samples) ==
    LET total == Len(samples)
        RECURSIVE Literals(_, _, _)
        Literals(i, j, run_length) ==
            IF j >= run_length THEN <<>>
            ELSE FormatFixed6(samples[i + j + 1])
                 \o (IF i + j < total - 1 THEN <<",">> ELSE <<>>)
                 \o Literals(i, j + 1, run_length)
        RECURSIVE Scan(_)
        Scan(i) ==
            IF i >= total THEN <<>>
            ELSE LET value == samples[i + 1]
                     run_length == AudioRunLength(samples, i, value, 1)
                 IN  (IF run_length >= 5
                      THEN to_string(i) \o <<"-">> \o to_string(i + run_length - 1)
                           \o <<"=">> \o FormatFixed6(value)
                           \o (IF i + run_length < total THEN <<",">> ELSE <<>>)
                      ELSE Literals(i, 0, run_length))
                     \o Scan(i + run_length)
    IN  Scan(0)

RECURSIVE Split(_, _)
\* the tokens std::getline(ss, token, sep) yields
Split(s, sep) ==
    IF s = <<>> THEN <<>>
    ELSE LET p == Find(s, sep)
         IN  IF p = -1 THEN <<s>>
             ELSE <<Substr(s, 0, p)>> \o Split(SubstrFrom(s, p + 1), sep)

\* parse_audio_channel appending to samples; ok = FALSE when stoi or stof
\* throws or an index is out of the vector
parse_audio_channel(data, samples0) ==
    LET Token(acc, token) ==
            LET dash == Find(token, "-")
                eq == Find(token, "=")
            IN  IF ~acc.ok THEN acc
                ELSE IF dash # -1 /\ eq # -1
                THEN LET start == stoi(Substr(token, 0, dash))
                         end == stoi(Substr(token, dash + 1, eq - dash - 1))
                         value == stof(SubstrFrom(token, eq + 1))
                         grown == acc.samples
                                  \o [k \in 1..(end.val + 1 - Len(acc.samples)) |-> 0]
                     IN  IF ~(start.ok /\ end.ok /\ value.ok) \/ start.val < 0
                         THEN [acc EXCEPT !.ok = FALSE]
                         ELSE [ok |-> TRUE,
                               samples |->
                                  [k \in 1..Len(grown) |->
                                      IF start.val <= k - 1 /\ k - 1 <= end.val
                                      THEN value.val ELSE grown[k]]]
                ELSE LET value == stof(token)
                     IN  IF ~value.ok THEN [acc EXCEPT !.ok = FALSE]
                         ELSE [acc EXCEPT !.samples = Append(@, value.val)]
        RECURSIVE Tokens(_, _)
        Tokens(acc, ts) ==
            IF ts = <<>> THEN acc
            ELSE Tokens(Token(acc, Head(ts)), Tail(ts))
    IN  Tokens([ok |-> TRUE, samples |-> samples0], Split(data, ","))

(***************************************************************************)
(* TemporalMerger: frames_to_range_string and build_hmic_data.             *)
(***************************************************************************)
RECURSIVE StrLess(_, _)
\* std::string operator<, on the characters a range string is made of
StrLess(a, b) ==
    LET order == <<",", "-">> \o DigitChar
        code(c) == CHOOSE i \in 1..Len(order) : order[i] = c
    IN  IF b = <<>> THEN FALSE
        ELSE IF a = <<>> THEN TRUE
        ELSE IF Head(a) # Head(b) THEN code(Head(a)) < code(Head(b))
        ELSE StrLess(Tail(a), Tail(b))

RECURSIVE SortStrings(_)
\* the keys of a std::map<std::string, ...> in iteration order
SortStrings(S) ==
    IF S = {} THEN <<>>
    ELSE LET m == CHOOSE k \in S : \A d \in S \ {k} : StrLess(k, d)
         IN  <<m>> \o SortStrings(S \ {m})

frames_to_range_string(fr) ==
    LET RangeText(start, end) ==
            IF start = end THEN to_string(start)
            ELSE to_string(start) \o <<"-">> \o to_string(end)
        RECURSIVE Ranges(_, _, _, _)
        Ranges(i, start, end, ranges) ==
            IF i > Len(fr) THEN Append(ranges, RangeText(start, end))
            ELSE IF fr[i] = end + 1 THEN Ranges(i + 1, start, fr[i], ranges)
            ELSE Ranges(i + 1, fr[i], fr[i],
                        Append(ranges, RangeText(start, end)))
        RECURSIVE Join(_)
        Join(rs) == IF Len(rs) = 1 THEN rs[1]
                    ELSE rs[1] \o <<",">> \o Join(Tail(rs))
    IN  IF fr = <<>> THEN <<>>
        ELSE IF Len(fr) = 1 THEN to_string(fr[1])
        ELSE Join(Ranges(2, fr[1], fr[1], <<>>))

RECURSIVE ExtendRunSkipsGaps(_, _, _, _, _)
\* a mutant of ExtendRun: a frame without a match is skipped and the scan
\* goes on to the later frames
ExtendRunSkipsGaps(fc, color, cmd_data, next_frame_idx, acc) ==
    IF next_frame_idx >= Len(fc) THEN acc
    ELSE LET cands == MapGet(fc[next_frame_idx + 1], color)
             hits == {k \in 1..Len(cands) :
                        /\ cands[k].x = cmd_data.x
                        /\ cands[k].end_x = cmd_data.end_x
                        /\ cands[k].y = cmd_data.y
                        /\ cands[k] \notin acc.merged[next_frame_idx + 1]}
         IN  IF hits = {}
             THEN ExtendRunSkipsGaps(fc, color, cmd_data, next_frame_idx + 1, acc)
             ELSE LET k == CHOOSE i \in hits : \A j \in hits : i <= j
                  IN  ExtendRunSkipsGaps(fc, color, cmd_data, next_frame_idx + 1,
                        [consecutive_frames |->
                            Append(acc.consecutive_frames, next_frame_idx + 1),
                         merged |-> [acc.merged EXCEPT
                            ![next_frame_idx + 1] = @ \cup {cands[k]}]])

RECURSIVE ExtendRun(_, _, _, _, _)
\* the forward scan (553-573): acc holds consecutive_frames and the merged
\* sets; the scan stops at the first frame with no unmerged match
ExtendRun(fc, color, cmd_data, next_frame_idx, acc) ==
    IF next_frame_idx >= Len(fc) THEN acc
    ELSE LET cands == MapGet(fc[next_frame_idx + 1], color)
             hits == {k \in 1..Len(cands) :
                        /\ cands[k].x = cmd_data.x
                        /\ cands[k].end_x = cmd_data.end_x
                        /\ cands[k].y = cmd_data.y
                        /\ cands[k] \notin acc.merged[next_frame_idx + 1]}
         IN  IF hits = {} THEN acc
             ELSE LET k == CHOOSE i \in hits : \A j \in hits : i <= j
                  IN  ExtendRun(fc, color, cmd_data, next_frame_idx + 1,
                        [consecutive_frames |->
                            Append(acc.consecutive_frames, next_frame_idx + 1),
                         merged |-> [acc.merged EXCEPT
                            ![next_frame_idx + 1] = @ \cup {cands[k]}]])

\* temporal_commands[frame_range_str][color].push_back(cmd)
PushTemporal(temporal, key, color, cmd) ==
    LET Put(m) == IF color \in DOMAIN m
                  THEN [m EXCEPT ![color] = Append(@, cmd)]
                  ELSE m @@ (color :> <<cmd>>)
    IN  IF key \in DOMAIN temporal
        THEN [temporal EXCEPT ![key] = Put(@)]
        ELSE temporal @@ (key :> Put(<<>>))

\* a mutant of ProcessCommand: the folded command of the first frame is
\* not marked as merged
ProcessCommandKeepsFirst(fc, frame_idx, color, cmd_data, st) ==
    IF cmd_data \in st.merged[frame_idx + 1] THEN st
    ELSE LET run == ExtendRun(fc, color, cmd_data, frame_idx + 1,
                        [consecutive_frames |-> <<frame_idx + 1>>,
                         merged |-> st.merged])
         IN  IF Len(run.consecutive_frames) > 1
             THEN LET key == frames_to_range_string(run.consecutive_frames)
                  IN  [merged |-> run.merged,
                       temporal |-> PushTemporal(st.temporal, key, color,
                                                 cmd_data.cmd)]
             ELSE st

\* the body of the innermost loop (549-579) for one command of frame_idx
ProcessCommand(fc, frame_idx, color, cmd_data, st) ==
    IF cmd_data \in st.merged[frame_idx + 1] THEN st
    ELSE LET run == ExtendRun(fc, color, cmd_data, frame_idx + 1,
                        [consecutive_frames |-> <<frame_idx + 1>>,
                         merged |-> st.merged])
         IN  IF Len(run.consecutive_frames) > 1
             THEN LET key == frames_to_range_string(run.consecutive_frames)
                  IN  [merged |-> [run.merged EXCEPT
                                      ![frame_idx + 1] = @ \cup {cmd_data}],
                       temporal |-> PushTemporal(st.temporal, key, color,
                                                 cmd_data.cmd)]
             ELSE st

\* the temporal optimization loop (546-582)
TemporalPass(fc) ==
    LET RECURSIVE CmdLoop(_, _, _, _)
        CmdLoop(frame_idx, color, k, st) ==
            IF k > Len(fc[frame_idx + 1][color]) THEN st
            ELSE CmdLoop(frame_idx, color, k + 1,
                    ProcessCommand(fc, frame_idx, color,
                                   fc[frame_idx + 1][color][k], st))
        RECURSIVE ColorLoop(_, _, _)
        ColorLoop(frame_idx, keys, st) ==
            IF keys = <<>> THEN st
            ELSE ColorLoop(frame_idx, Tail(keys),
                           CmdLoop(frame_idx, Head(keys), 1, st))
        RECURSIVE FrameLoop(_, _)
        FrameLoop(frame_idx, st) ==
            IF frame_idx >= Len(fc) - 1 THEN st
            ELSE FrameLoop(frame_idx + 1,
                    ColorLoop(frame_idx,
                              SortColors(DOMAIN fc[frame_idx + 1]), st))
    IN  FrameLoop(0, [merged |-> [i \in 1..Len(fc) |-> {}],
                      temporal |-> <<>>])

\* "rgba(r,g,b,a){" after the indentation
RgbaLine(color) ==
    <<" ", " ", "r", "g", "b", "a", "(">> \o to_string(color[1]) \o <<",">>
    \o to_string(color[2]) \o <<",">> \o to_string(color[3]) \o <<",">>
    \o to_string(color[4]) \o <<")", "{">>

\* the lines of the temporal blocks (588-599)
EmitTemporal(temporal) ==
    LET ColorLines(cmds_of, color) ==
            <<RgbaLine(color)>>
            \o [k \in 1..Len(cmds_of[color]) |->
                  <<" ", " ", " ", " ">> \o cmds_of[color][k]]
            \o <<<<" ", " ", "}">>>>
        Block(key) ==
            <<<<"F">> \o key \o <<"{">>>>
            \o ConcatAll([i \in 1..Cardinality(DOMAIN temporal[key]) |->
                  ColorLines(temporal[key],
                             SortColors(DOMAIN temporal[key])[i])])
            \o <<<<"}">>>>
        keys == SortStrings(DOMAIN temporal)
    IN  ConcatAll([i \in 1..Len(keys) |-> Block(keys[i])])

\* the lines of one frame's own block (602-625): nothing when every command
\* of the frame was folded away
EmitResidual(fc, merged, frame_idx) ==
    LET Left(color) == SelectSeq(fc[frame_idx + 1][color],
                          LAMBDA c : c \notin merged[frame_idx + 1])
        ColorLines(color) ==
            IF Left(color) = <<>> THEN <<>>
            ELSE <<RgbaLine(color)>>
                 \o [k \in 1..Len(Left(color)) |->
                       <<" ", " ", " ", " ">> \o Left(color)[k].cmd]
                 \o <<<<" ", " ", "}">>>>
        keys == SortColors(DOMAIN fc[frame_idx + 1])
        body == ConcatAll([i \in 1..Len(keys) |-> ColorLines(keys[i])])
    IN  IF body = <<>> THEN <<>>
        ELSE <<<<"F">> \o to_string(frame_idx + 1) \o <<"{">>>>
             \o body \o <<<<"}">>>>

\* build_hmic_data: the text as its lines, with the two tables it was
\* written from
build_hmic_data(w, h, fps, n, fc) ==
    LET st == TemporalPass(fc)
        info == << <<"i", "n", "f", "o", "{">>,
                   <<"D", "I", "S", "P", "L", "A", "Y", "=">> \o to_string(w)
                       \o <<"X">> \o to_string(h),
                   <<"F", "P", "S", "=">> \o to_string(fps),
                   <<"F", "=">> \o to_string(n),
                   <<"L", "O", "O", "P", "=", "Y">>,
                   <<"}">>,
                   <<>> >>
    IN  [merged |-> st.merged,
         temporal |-> st.temporal,
         data |-> info \o EmitTemporal(st.temporal)
                  \o ConcatAll([i \in 1..n |->
                        EmitResidual(fc, st.merged, i - 1)])]

(***************************************************************************)
(* The text player's parser: parse_rgba, parse_frame_range, parse_hmicav.  *)
(***************************************************************************)
\* s.find(pat) != npos
Contains(s, pat) ==
    \E i \in 0..(Len(s) - Len(pat)) : SubSeq(s, i + 1, i + Len(pat)) = pat

\* the two erase calls that strip blanks from both ends of a line
Trim(line) ==
    LET blank(i) == line[i] \in {" ", "\t", "\r", "\n"}
        RECURSIVE First(_)
        First(i) == IF i <= Len(line) /\ blank(i) THEN First(i + 1) ELSE i
        RECURSIVE Last(_)
        Last(i) == IF i >= 1 /\ blank(i) THEN Last(i - 1) ELSE i
    IN  SubSeq(line, First(1), Last(Len(line)))

\* parse_rgba; a channel is stored into a uint8_t
parse_rgba(color_str) ==
    LET start == Find(color_str, "(")
        end == Find(color_str, ")")
        tokens == Split(Substr(color_str, start + 1, end - start - 1), ",")
        n == Min2(Len(tokens), 4)
        vals == [k \in 1..n |-> stoi(tokens[k])]
    IN  IF start = -1 \/ end = -1 THEN [ok |-> TRUE, color |-> <<0, 0, 0, 255>>]
        ELSE [ok |-> \A k \in 1..n : vals[k].ok,
              color |-> [k \in 1..4 |->
                           IF k <= n THEN vals[k].val % 256
                           ELSE <<0, 0, 0, 255>>[k]]]

\* a mutant of parse_frame_range: the end of a span is left out
ParseFrameRangeOpenEnd(text) ==
    LET Span(start, end) ==
            [ok |-> start.ok /\ end.ok,
             frames |-> [i \in 1..(end.val - start.val) |-> start.val + i - 1]]
        Single(one) == [ok |-> one.ok, frames |-> <<one.val>>]
        Token(token, dash) ==
            IF dash # -1
            THEN Span(stoi(Substr(token, 0, dash)), stoi(SubstrFrom(token, dash + 1)))
            ELSE Single(stoi(token))
        All(parsed) ==
            [ok |-> \A k \in 1..Len(parsed) : parsed[k].ok,
             frames |-> ConcatAll([k \in 1..Len(parsed) |-> parsed[k].frames])]
        Each(tokens) ==
            All([k \in 1..Len(tokens) |-> Token(tokens[k], Find(tokens[k], "-"))])
    IN  Each(Split(text, ","))

\* parse_frame_range: the frame numbers of "a", "a-b" and comma lists
parse_frame_range(text) ==
    LET Span(start, end) ==
            [ok |-> start.ok /\ end.ok,
             frames |-> [i \in 1..(end.val - start.val + 1) |-> start.val + i - 1]]
        Single(one) == [ok |-> one.ok, frames |-> <<one.val>>]
        Token(token, dash) ==
            IF dash # -1
            THEN Span(stoi(Substr(token, 0, dash)), stoi(SubstrFrom(token, dash + 1)))
            ELSE Single(stoi(token))
        All(parsed) ==
            [ok |-> \A k \in 1..Len(parsed) : parsed[k].ok,
             frames |-> ConcatAll([k \in 1..Len(parsed) |-> parsed[k].frames])]
        Each(tokens) ==
            All([k \in 1..Len(tokens) |-> Token(tokens[k], Find(tokens[k], "-"))])
    IN  Each(Split(text, ","))

\* the parser's locals and the globals it fills, before the first line;
\* current_color has no initializer and is written by the first rgba line
ParseStart ==
    [state |-> "NONE", current_frame_range |-> <<>>, current_color |-> Stray,
     current_audio_channel |-> 0, ok |-> TRUE,
     video_info |-> [width |-> 0, height |-> 0, fps |-> 0, total_frames |-> 0,
                     loop |-> FALSE],
     frames |-> <<>>,
     has_audio |-> FALSE,
     audio_data |-> [sample_rate |-> 0, channels |-> 0, total_samples |-> 0,
                     channel_data |-> <<>>]]

\* one iteration of the getline loop of parse_hmicav; ok = FALSE once a
\* conversion or a resize has thrown
ParseLine(ps, raw) ==
    LET Body(line) ==
    LET Lit(n) == SubSeq(line, 1, Min2(n, Len(line)))
        num(pos) == stoi(SubstrFrom(line, pos))
        Fail == [ps EXCEPT !.ok = FALSE]
        Resize(v, n, fill) == [k \in 1..n |-> IF k <= Len(v) THEN v[k] ELSE fill]
    IN  IF ~ps.ok \/ line = <<>> THEN ps
        ELSE IF Contains(line, <<"H", "M", "I", "C", "A", "V", "_", "H", "E", "A", "D", "E", "R", "{">>)
                \/ Contains(line, <<"V", "I", "D", "E", "O", "_", "D", "A", "T", "A", "{">>)
        THEN ps
        ELSE IF Contains(line, <<"i", "n", "f", "o", "{">>)
        THEN [ps EXCEPT !.state = IF @ \in {"NONE", "HEADER"}
                                  THEN "VIDEO_INFO" ELSE "AUDIO_INFO"]
        ELSE IF Contains(line, <<"A", "U", "D", "I", "O", "_", "D", "A", "T", "A", "{">>)
        THEN [ps EXCEPT !.state = "AUDIO_INFO"]
        ELSE IF line = <<"}">>
        THEN [ps EXCEPT !.state = IF @ = "VIDEO_INFO" THEN "VIDEO_FRAMES"
                                  ELSE IF @ = "AUDIO_INFO" THEN "AUDIO_CHANNELS"
                                  ELSE @]
        ELSE IF ps.state = "VIDEO_INFO"
        THEN IF Lit(8) = <<"D", "I", "S", "P", "L", "A", "Y", "=">>
             THEN LET res == SubstrFrom(line, 8)
                      x_pos == Find(res, "X")
                      wd == stoi(IF x_pos = -1 THEN res ELSE Substr(res, 0, x_pos))
                      ht == stoi(SubstrFrom(res, x_pos + 1))
                  IN  IF ~(wd.ok /\ ht.ok) THEN Fail
                      ELSE [ps EXCEPT !.video_info.width = wd.val,
                                      !.video_info.height = ht.val]
             ELSE IF Lit(4) = <<"F", "P", "S", "=">>
             THEN IF ~num(4).ok THEN Fail
                  ELSE [ps EXCEPT !.video_info.fps = num(4).val]
             ELSE IF Lit(2) = <<"F", "=">>
             THEN IF ~num(2).ok \/ num(2).val < 0 THEN Fail
                  ELSE [ps EXCEPT !.video_info.total_frames = num(2).val,
                                  !.frames = Resize(@, num(2).val, <<>>)]
             ELSE IF Lit(5) = <<"L", "O", "O", "P", "=">>
             THEN [ps EXCEPT !.video_info.loop = (SubstrFrom(line, 5) = <<"Y">>)]
             ELSE ps
        ELSE IF ps.state = "VIDEO_FRAMES"
        THEN IF line[1] = "F" /\ Find(line, "{") # -1
             THEN [ps EXCEPT !.current_frame_range =
                                Substr(line, 1, Find(line, "{") - 1)]
             ELSE IF Lit(5) = <<"r", "g", "b", "a", "(">>
             THEN LET brace == Find(line, "{")
                      c == parse_rgba(IF brace = -1 THEN line
                                      ELSE Substr(line, 0, brace))
                  IN  IF ~c.ok THEN Fail ELSE [ps EXCEPT !.current_color = c.color]
             ELSE IF Lit(2) = <<"P", "=">> \/ Lit(3) = <<"P", "L", "=">>
             THEN LET PutLine(m) ==
                          IF ps.current_color \in DOMAIN m
                          THEN [m EXCEPT ![ps.current_color] = Append(@, line)]
                          ELSE m @@ (ps.current_color :> <<line>>)
                      RECURSIVE Each(_, _, _)
                      Each(frame_nums, k, fs) ==
                          IF k > Len(frame_nums) THEN fs
                          ELSE Each(frame_nums, k + 1,
                                 IF frame_nums[k] > 0
                                    /\ frame_nums[k] <= ps.video_info.total_frames
                                 THEN [fs EXCEPT ![frame_nums[k]] = PutLine(@)]
                                 ELSE fs)
                      Store(fr) ==
                          IF ~fr.ok THEN Fail
                          ELSE [ps EXCEPT !.frames = Each(fr.frames, 1, @)]
                  IN  Store(parse_frame_range(ps.current_frame_range))
             ELSE ps
        ELSE IF ps.state = "AUDIO_INFO"
        THEN IF Lit(3) = <<"h", "z", "=">>
             THEN IF ~num(3).ok THEN Fail
                  ELSE [ps EXCEPT !.audio_data.sample_rate = num(3).val,
                                  !.has_audio = TRUE]
             ELSE IF Lit(2) = <<"c", "=">>
             THEN IF ~num(2).ok \/ num(2).val < 0 THEN Fail
                  ELSE [ps EXCEPT !.audio_data.channels = num(2).val,
                                  !.audio_data.channel_data =
                                      Resize(@, num(2).val, <<>>)]
             ELSE IF Lit(4) = <<"s", "a", "m", "=">>
             THEN IF ~num(4).ok THEN Fail
                  ELSE [ps EXCEPT !.audio_data.total_samples = num(4).val]
             ELSE ps
        ELSE IF ps.state = "AUDIO_CHANNELS"
        THEN IF line[1] = "C" /\ Find(line, "{") # -1
             THEN LET ch == stoi(Substr(line, 1, Find(line, "{") - 1))
                  IN  IF ~ch.ok THEN Fail
                      ELSE [ps EXCEPT !.current_audio_channel = ch.val - 1]
             ELSE IF ps.current_audio_channel >= 0
                     /\ ps.current_audio_channel < ps.audio_data.channels
             THEN LET r == parse_audio_channel(line,
                             ps.audio_data.channel_data[ps.current_audio_channel + 1])
                  IN  IF ~r.ok THEN Fail
                      ELSE [ps EXCEPT !.audio_data.channel_data[ps.current_audio_channel + 1] = r.samples]
             ELSE ps
        ELSE ps
    IN  Body(Trim(raw))

RECURSIVE ParseLines(_, _)
ParseLines(ps, lines) ==
    IF lines = <<>> THEN ps
    ELSE ParseLines(ParseLine(ps, Head(lines)), Tail(lines))

\* parse_hmicav over the lines of the content
parse_hmicav(lines) == ParseLines(ParseStart, lines)

(***************************************************************************)
(* Specification of the audio text codec on one channel.                   *)
(***************************************************************************)
\* 4e-7, 1.03e-5 and 2.02e-5 lie within epsilon of their neighbour; -0.5
\* exercises the sign
SampleValues == {-5000000, 4, 103, 202}

AudioInit ==
    /\ au_samples \in UNION {[1..n -> SampleValues] : n \in 0..MaxSamples}
    /\ au_text = <<>>
    /\ au_decoded = <<>>
    /\ au_pc = "start"
    /\ SpatialIdle /\ TemporalIdle /\ BinaryIdle /\ PlayerIdle

Compress ==
    /\ au_pc = "start"
    /\ au_text' = compress_channel_data(au_samples)
    /\ au_pc' = "compressed"
    /\ UNCHANGED <<au_samples, au_decoded, spVars, tmVars, binVars, plVars>>

ParseChannel ==
    /\ au_pc = "compressed"
    /\ LET r == parse_audio_channel(au_text, <<>>)
       IN  /\ au_decoded' = r.samples
           /\ au_pc' = IF r.ok THEN "parsed" ELSE "threw"
    /\ UNCHANGED <<au_samples, au_text, spVars, tmVars, binVars, plVars>>

AudioNext == Compress \/ ParseChannel

SpecAudio == AudioInit /\ [][AudioNext]_vars

TemporalInit ==
    /\ \E d \in ClipDims : tm_w = d[1] /\ tm_h = d[2]
    /\ tm_fps = 30
    /\ n_frames \in 1..MaxFrames
    /\ \E px \in [1..n_frames -> [1..(tm_w * tm_h) -> Colors]] :
          all_frame_commands =
             [f \in 1..n_frames |->
                MergeResults([t \in {0} |->
                    process_frame_rows_parallel(px[f], tm_w, tm_h, 0, tm_h)], 1)]
    /\ merged_commands = <<>>
    /\ temporal_commands = <<>>
    /\ hmic_data = <<>>
    /\ video_info = <<>>
    /\ frames = <<>>
    /\ tm_pc = "spatial"
    /\ range_frames = <<>> /\ range_str = <<>> /\ range_parsed = <<>>
    /\ SpatialIdle /\ AudioIdle /\ BinaryIdle /\ PlayerIdle

\* main calls build_hmic_data (con.cpp 746)
BuildHmic ==
    /\ tm_pc = "spatial"
    /\ LET r == build_hmic_data(tm_w, tm_h, tm_fps, n_frames, all_frame_commands)
       IN  /\ merged_commands' = r.merged
           /\ temporal_commands' = r.temporal
           /\ hmic_data' = r.data
    /\ tm_pc' = "built"
    /\ UNCHANGED <<tm_w, tm_h, tm_fps, n_frames, all_frame_commands,
                   video_info, frames, rgVars, spVars, auVars, binVars,
                   plVars>>

\* the lines of the text whose numbers parse_hmicav converts: all but the
\* draw commands, which are stored as text
NumericLines(lines) ==
    {k \in 1..Len(lines) :
        /\ \E i \in 1..Len(lines[k]) : IsDigit(lines[k][i])
        /\ LET line == Trim(lines[k])
           IN  SubSeq(line, 1, 2) # <<"P", "=">>
               /\ SubSeq(line, 1, 3) # <<"P", "L", "=">>}

\* a line with its first or its last digit replaced by a letter
GarbleLine(line, last) ==
    LET digits == {i \in 1..Len(line) : IsDigit(line[i])}
        at == CHOOSE i \in digits :
                 \A j \in digits : IF last THEN j <= i ELSE i <= j
    IN  [line EXCEPT ![at] = "x"]

\* the file the text player is given has a numeric token that is not a
\* number
Garble ==
    /\ tm_pc = "built"
    /\ n_frames <= MaxGarbledFrames
    /\ \E k \in NumericLines(hmic_data) : \E last \in BOOLEAN :
          hmic_data' = [hmic_data EXCEPT ![k] = GarbleLine(@, last)]
    /\ tm_pc' = "garbled"
    /\ UNCHANGED <<tm_w, tm_h, tm_fps, n_frames, all_frame_commands,
                   merged_commands, temporal_commands, video_info, frames,
                   rgVars, spVars, auVars, binVars, plVars>>

\* the text player parses the text: parse_hmicav returns true, or one of
\* its conversions throws and nothing catches it; for the text the
\* converter built the outcomes are "parsed" and "threw", for a garbled text
\* "parsed_garbled" and "terminated"
ParseHmic ==
    /\ tm_pc \in {"built", "garbled"}
    /\ LET ps == parse_hmicav(hmic_data)
       IN  /\ video_info' = ps.video_info
           /\ frames' = ps.frames
           /\ tm_pc' = IF tm_pc = "built"
                        THEN (IF ps.ok THEN "parsed" ELSE "threw")
                        ELSE (IF ps.ok THEN "parsed_garbled" ELSE "terminated")
    /\ UNCHANGED <<tm_w, tm_h, tm_fps, n_frames, all_frame_commands,
                   merged_commands, temporal_commands, hmic_data,
                   rgVars, spVars, auVars, binVars, plVars>>

TemporalNext == BuildHmic \/ Garble \/ ParseHmic

SpecTemporal == TemporalInit /\ [][TemporalNext]_vars

\* how often a text occurs in a list of texts
CountIn(list, t) == Cardinality({k \in 1..Len(list) : list[k] = t})

\* C3: for every frame f, what the player collects for f from f's own block
\* and from every temporal block whose range includes f is exactly the
\* spatial encoder's output for f, every command of every color once.
C3_TemporalCorrect ==
    tm_pc \in {"parsed", "threw"} =>
        /\ tm_pc = "parsed"
        /\ Len(frames) = n_frames
        /\ \A f \in 1..n_frames :
              /\ DOMAIN frames[f] = DOMAIN all_frame_commands[f]
              /\ \A c \in DOMAIN frames[f] :
                    LET spatial == CmdTexts(all_frame_commands[f])[c]
                        got == frames[f][c]
                    IN  /\ Len(got) = Len(spatial)
                        /\ \A k \in 1..Len(spatial) :
                              /\ CountIn(got, spatial[k]) = 1
                              /\ CountIn(spatial, spatial[k]) = 1

C3_Witness ==
    /\ tm_pc = "parsed"
    /\ n_frames = 3
    /\ tm_h = 2
    /\ <<"1", "-", "2">> \in DOMAIN temporal_commands
    /\ <<"2", "-", "3">> \in DOMAIN temporal_commands
    /\ merged_commands[3] # {}
    /\ \E c \in DOMAIN all_frame_commands[3] :
          \E k \in 1..Len(all_frame_commands[3][c]) :
              all_frame_commands[3][c][k] \notin merged_commands[3]

\* frame f (1-based) of the spatial output holds the command text t in color c
Holds(f, c, t) ==
    /\ c \in DOMAIN all_frame_commands[f]
    /\ \E k \in 1..Len(all_frame_commands[f][c]) :
          all_frame_commands[f][c][k].cmd = t

\* the keys of the temporal blocks that hold text t in color c and whose
\* range, as the player reads it, touches a frame of a..b
BlocksOn(c, t, a, b) ==
    {r \in DOMAIN temporal_commands :
        /\ c \in DOMAIN temporal_commands[r]
        /\ CountIn(temporal_commands[r][c], t) > 0
        /\ \E i \in 1..Len(parse_frame_range(r).frames) :
              parse_frame_range(r).frames[i] \in a..b}

\* the command of frame f with text t in color c is left as a residual
Residual(f, c, t) ==
    \E k \in 1..Len(all_frame_commands[f][c]) :
        /\ all_frame_commands[f][c][k].cmd = t
        /\ all_frame_commands[f][c][k] \notin merged_commands[f]

\* C4: for every color and command, every maximal run a..b of frames that
\* hold it is, when b > a, folded into exactly one temporal block, written
\* "Fa-b{", which lists it once and leaves no residual in a..b; a run of
\* one frame is in no temporal block and stays a residual.
C4_MaximalRuns ==
    tm_pc \in {"built", "parsed"} =>
        \A a \in 1..n_frames : \A b \in a..n_frames :
            \A c \in DOMAIN all_frame_commands[a] :
                \A k \in 1..Len(all_frame_commands[a][c]) :
                    LET t == all_frame_commands[a][c][k].cmd
                        key == to_string(a) \o <<"-">> \o to_string(b)
                    IN  (/\ \A f \in a..b : Holds(f, c, t)
                         /\ (a = 1 \/ ~Holds(a - 1, c, t))
                         /\ (b = n_frames \/ ~Holds(b + 1, c, t)))
                        => IF b > a
                           THEN /\ BlocksOn(c, t, a, b) = {key}
                                /\ parse_frame_range(key).frames
                                      = [i \in 1..(b - a + 1) |-> a + i - 1]
                                /\ CountIn(temporal_commands[key][c], t) = 1
                                /\ \E i \in 1..Len(hmic_data) :
                                      hmic_data[i] = <<"F">> \o key \o <<"{">>
                                /\ \A f \in a..b : ~Residual(f, c, t)
                           ELSE /\ BlocksOn(c, t, a, a) = {}
                                /\ Residual(a, c, t)

\* a command held by frames 1, 2 and 4 but not 3: folded over 1-2, left as
\* a residual in 4
C4_Witness ==
    /\ tm_pc = "built"
    /\ n_frames = 4
    /\ \E c \in Colors : \E t \in {<<"P", "=", "1", "x", "1">>} :
          /\ Holds(1, c, t) /\ Holds(2, c, t) /\ ~Holds(3, c, t)
          /\ Holds(4, c, t)
          /\ BlocksOn(c, t, 1, 4) = {<<"1", "-", "2">>}
          /\ Residual(4, c, t)

(***************************************************************************)
(* The binary container.  The file is its sequence of bytes; a packed      *)
(* struct is written and read as the bytes of its fields, low byte first.  *)
(***************************************************************************)
\* the bytes of an unsigned k-byte field, and the field of those bytes
RECURSIVE ToBytes(_, _)
ToBytes(n, k) ==
    IF k = 0 THEN <<>> ELSE <<n % 256>> \o ToBytes(n \div 256, k - 1)

RECURSIVE FromBytes(_)
FromBytes(bytes) ==
    IF bytes = <<>> THEN 0 ELSE Head(bytes) + 256 * FromBytes(Tail(bytes))

\* "HMICFAST"
Magic == <<72, 77, 73, 67, 70, 65, 83, 84>>

\* struct HMICFastHeader, packed: the fields in order with their sizes
HeaderLayout ==
    << <<"version", 4>>, <<"width", 4>>, <<"height", 4>>, <<"fps", 4>>,
       <<"total_frames", 4>>, <<"has_audio", 1>>, <<"compressed", 1>>,
       <<"audio_sample_rate", 4>>, <<"audio_channels", 1>>,
       <<"audio_samples", 8>>, <<"frame_index_offset", 8>>,
       <<"audio_data_offset", 8>> >>

\* sizeof(HMICFastHeader) and sizeof(FrameIndexEntry)
HeaderSize == Len(Magic) + SeqSum([i \in 1..Len(HeaderLayout) |-> HeaderLayout[i][2]])
EntrySize == 8 + 4

\* the bytes file.write((char*)&header, sizeof(HMICFastHeader)) writes
HeaderBytes(header) ==
    header.magic
    \o ConcatAll([i \in 1..Len(HeaderLayout) |->
                    ToBytes(header[HeaderLayout[i][1]], HeaderLayout[i][2])])

\* the bytes of a mapping from address addr on, n of them; reading past the
\* end of the mapping is a fault
View(mem, addr, n) ==
    IF addr < 0 \/ addr + n > Len(mem) THEN [fault |-> TRUE, bytes |-> <<>>]
    ELSE [fault |-> FALSE, bytes |-> SubSeq(mem, addr + 1, addr + n)]

\* the n bytes a pointer to address addr of the mapping shows: the file's
\* bytes, and zeros from the end of the file to the end of its last page
\* (the files of the model are shorter than a page)
Mapped(mem, addr, n) ==
    [i \in 1..n |-> IF addr + i <= Len(mem) THEN mem[addr + i] ELSE 0]

\* the offsets of the bytes of a header field
FieldBytes(name) ==
    LET idx == CHOOSE i \in 1..Len(HeaderLayout) : HeaderLayout[i][1] = name
        off == Len(Magic) + SeqSum([j \in 1..(idx - 1) |-> HeaderLayout[j][2]])
    IN  off..(off + HeaderLayout[idx][2] - 1)

\* the header a HMICFastHeader* at the start of the mapping shows
HeaderAt(mem) ==
    LET off(i) == Len(Magic) + SeqSum([j \in 1..(i - 1) |-> HeaderLayout[j][2]])
        names == {HeaderLayout[i][1] : i \in 1..Len(HeaderLayout)}
        idx(name) == CHOOSE i \in 1..Len(HeaderLayout) : HeaderLayout[i][1] = name
    IN  [name \in names \cup {"magic"} |->
            IF name = "magic" THEN Mapped(mem, 0, Len(Magic))
            ELSE FromBytes(Mapped(mem, off(idx(name)),
                                  HeaderLayout[idx(name)][2]))]

\* a mutant of EntryAt: the offset is taken past the frame it names
EntryAtPastFrame(mem, addr) ==
    [offset |-> FromBytes(Mapped(mem, addr, 8))
                + FromBytes(Mapped(mem, addr + 8, 4)),
     size |-> FromBytes(Mapped(mem, addr + 8, 4))]

\* the FrameIndexEntry at an address of the mapping
EntryAt(mem, addr) ==
    [offset |-> FromBytes(Mapped(mem, addr, 8)),
     size |-> FromBytes(Mapped(mem, addr + 8, 4))]

\* the bytes of a vector of RGBA
PixelBytes(frame) == ConcatAll([i \in 1..Len(frame) |-> frame[i]])

\* a mutant of WriteAt: the bytes go to the end of the file, without the
\* seekp
WriteAtNoSeek(file, pos, bytes) == file \o bytes

\* seekp(pos) then write(bytes) over a file at least that long
WriteAt(file, pos, bytes) ==
    SubSeq(file, 1, pos) \o bytes \o SubSeq(file, pos + Len(bytes) + 1, Len(file))

(***************************************************************************)
(* A stand-in for the zstd library: a frame is a marker byte, the content  *)
(* size, then <<count, byte>> pairs.  Decompression checks the marker, the *)
(* pairs and the destination capacity, as ZSTD_decompress reports errors.  *)
(***************************************************************************)
RECURSIVE RlePairs(_)
RlePairs(src) ==
    IF src = <<>> THEN <<>>
    ELSE LET RECURSIVE Same(_)
             Same(n) == IF n < Len(src) /\ n < 255 /\ src[n + 1] = src[1]
                        THEN Same(n + 1) ELSE n
             run(n) == <<n, src[1]>> \o RlePairs(SubSeq(src, n + 1, Len(src)))
         IN  run(Same(1))

ZSTD_compress(src) == <<40, Len(src)>> \o RlePairs(src)

RECURSIVE RleExpand(_)
RleExpand(pairs) ==
    IF Len(pairs) < 2 THEN <<>>
    ELSE [i \in 1..pairs[1] |-> pairs[2]] \o RleExpand(SubSeq(pairs, 3, Len(pairs)))

ZSTD_decompress(dstCapacity, src) ==
    LET Out(bytes) ==
            IF Len(bytes) # src[2] \/ Len(bytes) > dstCapacity
            THEN [error |-> TRUE, bytes |-> <<>>]
            ELSE [error |-> FALSE, bytes |-> bytes]
    IN  IF Len(src) < 2 \/ src[1] # 40 \/ Len(src) % 2 # 0
        THEN [error |-> TRUE, bytes |-> <<>>]
        ELSE Out(RleExpand(SubSeq(src, 3, Len(src))))

(***************************************************************************)
(* write_hmicfast_binary, load_hmicfast and get_frame_data.                *)
(***************************************************************************)
\* fail_at is the frame at which ZSTD_compress reports an error, -1 for none
write_hmicfast_binary(w, h, fps, frames_data, audio, compress_frames, fail_at) ==
    LET n == Len(frames_data)
        has_audio == audio.present /\ audio.total_samples > 0
        header == [magic |-> Magic, version |-> 1, width |-> w, height |-> h,
                   fps |-> fps, total_frames |-> n,
                   has_audio |-> IF has_audio THEN 1 ELSE 0,
                   compressed |-> IF compress_frames THEN 1 ELSE 0,
                   audio_sample_rate |-> IF has_audio THEN audio.sample_rate ELSE 0,
                   audio_channels |-> IF has_audio THEN audio.channels ELSE 0,
                   audio_samples |-> IF has_audio THEN audio.total_samples ELSE 0,
                   frame_index_offset |-> 0, audio_data_offset |-> 0]
        frame_index_pos == HeaderSize
        start == HeaderBytes(header) \o [i \in 1..(EntrySize * n) |-> 0]
        Payload(i) == IF compress_frames
                      THEN ZSTD_compress(PixelBytes(frames_data[i + 1]))
                      ELSE PixelBytes(frames_data[i + 1])
        RECURSIVE Frames(_, _, _)
        Frames(i, file, frame_index) ==
            IF i >= n THEN [ok |-> TRUE, file |-> file, frame_index |-> frame_index]
            ELSE IF compress_frames /\ fail_at = i
            THEN [ok |-> FALSE, file |-> file, frame_index |-> frame_index]
            ELSE Frames(i + 1, file \o Payload(i),
                        Append(frame_index,
                               [offset |-> Len(file), size |-> Len(Payload(i))]))
        AudioBytes ==
            ConcatAll([k \in 1..(audio.total_samples * audio.channels) |->
                ToBytes(audio.channel_data[((k - 1) % audio.channels) + 1]
                                          [((k - 1) \div audio.channels) + 1], 4)])
        Finish(fr) ==
            LET with_audio == IF has_audio THEN fr.file \o AudioBytes ELSE fr.file
                final == [header EXCEPT
                            !.audio_data_offset = IF has_audio THEN Len(fr.file) ELSE 0,
                            !.frame_index_offset = frame_index_pos]
                index == ConcatAll([i \in 1..n |->
                            ToBytes(fr.frame_index[i].offset, 8)
                            \o ToBytes(fr.frame_index[i].size, 4)])
            IN  IF ~fr.ok THEN [ok |-> FALSE, file |-> fr.file]
                ELSE [ok |-> TRUE,
                      file |-> WriteAt(WriteAt(with_audio, 0, HeaderBytes(final)),
                                       frame_index_pos, index)]
    IN  Finish(Frames(0, start, <<>>))

\* FastPlayerState's file fields as declared; header_ptr is the pointer
\* player.header and reads the offsets of the mapping the load has read
Unloaded ==
    [ok |-> FALSE, fd |-> -1, mapped_data |-> "nullptr", mapped_size |-> 0,
     header_ptr |-> "nullptr", reads |-> {}]

\* a mutant of load_hmicfast: the video info is read before the magic is
\* compared
LoadReadsHeaderFirst(mem) ==
    LET header == HeaderAt(mem)
        opened == [Unloaded EXCEPT !.fd = 3, !.mapped_size = Len(mem)]
        mapped == [opened EXCEPT !.mapped_data = "mapping",
                                 !.header_ptr = "mapping",
                                 !.reads = 0..(HeaderSize - 1)]
    IN  IF Len(mem) = 0 THEN [opened EXCEPT !.mapped_data = "MAP_FAILED"]
        ELSE IF header.magic # Magic THEN mapped
        ELSE [ok |-> TRUE, fd |-> 3, mapped_data |-> "mapping",
              header_ptr |-> "mapping", reads |-> 0..(HeaderSize - 1),
              mapped_size |-> Len(mem),
              header |-> header,
              frame_index |-> header.frame_index_offset,
              frames_base |-> HeaderSize + EntrySize * header.total_frames,
              has_audio |-> header.has_audio # 0,
              audio_data |-> IF header.has_audio # 0
                             THEN header.audio_data_offset ELSE -1]

\* load_hmicfast on the bytes of the file: open gives descriptor 3, fstat
\* the length, mmap of an empty file fails; the result is the player's
\* fields as the call leaves them, released or not
load_hmicfast(mem) ==
    LET header == HeaderAt(mem)
        opened == [Unloaded EXCEPT !.fd = 3, !.mapped_size = Len(mem)]
        mapped == [opened EXCEPT !.mapped_data = "mapping",
                                 !.header_ptr = "mapping",
                                 !.reads = 0..(Len(Magic) - 1)]
        audio_fields == {"audio_sample_rate", "audio_channels",
                         "audio_samples", "audio_data_offset"}
        read_fields == {"width", "height", "fps", "total_frames", "compressed",
                        "frame_index_offset", "has_audio"}
                       \cup (IF header.has_audio # 0 THEN audio_fields ELSE {})
    IN  IF Len(mem) = 0 THEN [opened EXCEPT !.mapped_data = "MAP_FAILED"]
        ELSE IF header.magic # Magic THEN mapped
        ELSE [ok |-> TRUE, fd |-> 3, mapped_data |-> "mapping",
              header_ptr |-> "mapping",
              reads |-> mapped.reads \cup UNION {FieldBytes(f) : f \in read_fields},
              mapped_size |-> Len(mem),
              header |-> header,
              frame_index |-> header.frame_index_offset,
              frames_base |-> HeaderSize + EntrySize * header.total_frames,
              has_audio |-> header.has_audio # 0,
              audio_data |-> IF header.has_audio # 0
                             THEN header.audio_data_offset ELSE -1]

\* a mutant of get_frame_data: one cache slot shared by all frames
GetFrameOneSlot(mem, pl, cache, cached, frame_idx) ==
    LET total == pl.header.total_frames
        Null == [null |-> TRUE, fault |-> FALSE, addr |-> -1, bytes |-> <<>>,
                 error |-> FALSE, decoded |-> FALSE,
                 cache |-> cache, cached |-> cached]
        entry == EntryAt(mem, pl.frame_index + EntrySize * frame_idx)
        addr == pl.frames_base + entry.offset - (HeaderSize + EntrySize * total)
        frame_size == pl.header.width * pl.header.height * 4
        Direct(v) == [null |-> FALSE, fault |-> v.fault, addr |-> addr,
                      bytes |-> v.bytes, error |-> FALSE, decoded |-> FALSE,
                      cache |-> cache, cached |-> cached]
        Decoded(src) ==
            LET r == ZSTD_decompress(frame_size, src.bytes)
            IN  IF src.fault
                THEN [Null EXCEPT !.fault = TRUE, !.decoded = TRUE]
                ELSE IF r.error THEN [Null EXCEPT !.error = TRUE, !.decoded = TRUE]
                ELSE [null |-> FALSE, fault |-> FALSE, addr |-> -1,
                      bytes |-> r.bytes, error |-> FALSE, decoded |-> TRUE,
                      cache |-> [cache EXCEPT ![1] = r.bytes],
                      cached |-> [cached EXCEPT ![1] = TRUE]]
    IN  IF frame_idx < 0 \/ frame_idx >= total THEN Null
        ELSE IF pl.header.compressed = 0 THEN Direct(View(mem, addr, frame_size))
        ELSE IF cached[1]
        THEN [null |-> FALSE, fault |-> FALSE, addr |-> -1,
              bytes |-> cache[1], error |-> FALSE, decoded |-> FALSE,
              cache |-> cache, cached |-> cached]
        ELSE Decoded(View(mem, addr, entry.size))

\* a mutant of get_frame_data: after a decompression error the buffer is
\* neither freed nor taken out of the cache
GetFrameKeepsFailed(mem, pl, cache, cached, frame_idx) ==
    LET total == pl.header.total_frames
        Null == [null |-> TRUE, fault |-> FALSE, addr |-> -1, bytes |-> <<>>,
                 error |-> FALSE, decoded |-> FALSE,
                 cache |-> cache, cached |-> cached]
        entry == EntryAt(mem, pl.frame_index + EntrySize * frame_idx)
        addr == pl.frames_base + entry.offset - (HeaderSize + EntrySize * total)
        frame_size == pl.header.width * pl.header.height * 4
        Direct(v) == [null |-> FALSE, fault |-> v.fault, addr |-> addr,
                      bytes |-> v.bytes, error |-> FALSE, decoded |-> FALSE,
                      cache |-> cache, cached |-> cached]
        Decoded(src) ==
            LET r == ZSTD_decompress(frame_size, src.bytes)
            IN  IF src.fault
                THEN [Null EXCEPT !.fault = TRUE, !.decoded = TRUE]
                ELSE IF r.error
                THEN [Null EXCEPT !.error = TRUE, !.decoded = TRUE,
                                  !.cache = [cache EXCEPT ![frame_idx + 1] =
                                               [k \in 1..frame_size |-> 0]]]
                ELSE [null |-> FALSE, fault |-> FALSE, addr |-> -1,
                      bytes |-> r.bytes, error |-> FALSE, decoded |-> TRUE,
                      cache |-> [cache EXCEPT ![frame_idx + 1] = r.bytes],
                      cached |-> [cached EXCEPT ![frame_idx + 1] = TRUE]]
    IN  IF frame_idx < 0 \/ frame_idx >= total THEN Null
        ELSE IF pl.header.compressed = 0 THEN Direct(View(mem, addr, frame_size))
        ELSE IF cached[frame_idx + 1]
        THEN [null |-> FALSE, fault |-> FALSE, addr |-> -1,
              bytes |-> cache[frame_idx + 1], error |-> FALSE,
              decoded |-> FALSE,
              cache |-> cache, cached |-> cached]
        ELSE Decoded(View(mem, addr, entry.size))

\* a mutant of get_frame_data: the cached flag is not looked at
GetFrameAlwaysDecodes(mem, pl, cache, cached, frame_idx) ==
    LET total == pl.header.total_frames
        Null == [null |-> TRUE, fault |-> FALSE, addr |-> -1, bytes |-> <<>>,
                 error |-> FALSE, decoded |-> FALSE,
                 cache |-> cache, cached |-> cached]
        entry == EntryAt(mem, pl.frame_index + EntrySize * frame_idx)
        addr == pl.frames_base + entry.offset - (HeaderSize + EntrySize * total)
        frame_size == pl.header.width * pl.header.height * 4
        Direct(v) == [null |-> FALSE, fault |-> v.fault, addr |-> addr,
                      bytes |-> v.bytes, error |-> FALSE, decoded |-> FALSE,
                      cache |-> cache, cached |-> cached]
        Decoded(src) ==
            LET r == ZSTD_decompress(frame_size, src.bytes)
            IN  IF src.fault
                THEN [Null EXCEPT !.fault = TRUE, !.decoded = TRUE]
                ELSE IF r.error
                THEN [Null EXCEPT !.error = TRUE, !.decoded = TRUE,
                                  !.cache = [cache EXCEPT ![frame_idx + 1] = <<>>]]
                ELSE [null |-> FALSE, fault |-> FALSE, addr |-> -1,
                      bytes |-> r.bytes, error |-> FALSE, decoded |-> TRUE,
                      cache |-> [cache EXCEPT ![frame_idx + 1] = r.bytes],
                      cached |-> [cached EXCEPT ![frame_idx + 1] = TRUE]]
    IN  IF frame_idx < 0 \/ frame_idx >= total THEN Null
        ELSE IF pl.header.compressed = 0 THEN Direct(View(mem, addr, frame_size))
        ELSE IF FALSE
        THEN [null |-> FALSE, fault |-> FALSE, addr |-> -1,
              bytes |-> cache[frame_idx + 1], error |-> FALSE,
              decoded |-> FALSE,
              cache |-> cache, cached |-> cached]
        ELSE Decoded(View(mem, addr, entry.size))

\* get_frame_data: the result with the cache as the call leaves it; a
\* pointer into the mapping is its address, a cache buffer has address -1
get_frame_data(mem, pl, cache, cached, frame_idx) ==
    LET total == pl.header.total_frames
        Null == [null |-> TRUE, fault |-> FALSE, addr |-> -1, bytes |-> <<>>,
                 error |-> FALSE, decoded |-> FALSE,
                 cache |-> cache, cached |-> cached]
        entry == EntryAt(mem, pl.frame_index + EntrySize * frame_idx)
        addr == pl.frames_base + entry.offset - (HeaderSize + EntrySize * total)
        frame_size == pl.header.width * pl.header.height * 4
        Direct(v) == [null |-> FALSE, fault |-> v.fault, addr |-> addr,
                      bytes |-> v.bytes, error |-> FALSE, decoded |-> FALSE,
                      cache |-> cache, cached |-> cached]
        Decoded(src) ==
            LET r == ZSTD_decompress(frame_size, src.bytes)
            IN  IF src.fault
                THEN [Null EXCEPT !.fault = TRUE, !.decoded = TRUE]
                ELSE IF r.error
                THEN [Null EXCEPT !.error = TRUE, !.decoded = TRUE,
                                  !.cache = [cache EXCEPT ![frame_idx + 1] = <<>>]]
                ELSE [null |-> FALSE, fault |-> FALSE, addr |-> -1,
                      bytes |-> r.bytes, error |-> FALSE, decoded |-> TRUE,
                      cache |-> [cache EXCEPT ![frame_idx + 1] = r.bytes],
                      cached |-> [cached EXCEPT ![frame_idx + 1] = TRUE]]
    IN  IF frame_idx < 0 \/ frame_idx >= total THEN Null
        ELSE IF pl.header.compressed = 0 THEN Direct(View(mem, addr, frame_size))
        ELSE IF cached[frame_idx + 1]
        THEN [null |-> FALSE, fault |-> FALSE, addr |-> -1,
              bytes |-> cache[frame_idx + 1], error |-> FALSE,
              decoded |-> FALSE,
              cache |-> cache, cached |-> cached]
        ELSE Decoded(View(mem, addr, entry.size))

(***************************************************************************)
(* Specification of the binary container: write, map, then frame accesses  *)
(* in any order.                                                           *)
(***************************************************************************)
\* the audio arguments tried: none, or two channels of two float samples
\* given by their bit patterns
AudioInputs ==
    {[present |-> FALSE, sample_rate |-> 0, channels |-> 0, total_samples |-> 0,
      channel_data |-> <<>>],
     [present |-> TRUE, sample_rate |-> 44100, channels |-> 2, total_samples |-> 2,
      channel_data |-> << <<0, 1065353216>>, <<1056964608, 0>> >>]}

BinaryInit ==
    /\ \E d \in ClipDims : \E n \in 0..MaxBinFrames :
         \E fd \in [1..n -> [1..(d[1] * d[2]) -> Colors]] :
           \E a \in AudioInputs : \E c \in BOOLEAN :
              bin_in = [w |-> d[1], h |-> d[2], fps |-> 30, frames_data |-> fd,
                        audio |-> a, compress_frames |-> c]
    /\ bin_file = <<>>
    /\ fast = Unloaded
    /\ frame_cache = <<>>
    /\ frame_cached = <<>>
    /\ returned = [idx |-> -1, null |-> TRUE, fault |-> FALSE, addr |-> -1,
                   bytes |-> <<>>, decoded |-> FALSE]
    /\ damage = [kind |-> "none", at |-> 0]
    /\ decode_errors = {}
    /\ screen_surface = <<>>
    /\ last_frame = -1
    /\ bin_pc = "start"
    /\ SpatialIdle /\ TemporalIdle /\ AudioIdle /\ PlayerIdle

\* a mutant of WriteBinary: after a compression error the remaining frames,
\* the audio and the final header and index are written all the same
WriteBinaryGoesOn ==
    /\ bin_pc = "start"
    /\ \E fail_at \in {-1} \cup (IF bin_in.compress_frames
                                 THEN 0..(Len(bin_in.frames_data) - 1) ELSE {}) :
          LET r == write_hmicfast_binary(bin_in.w, bin_in.h, bin_in.fps,
                       bin_in.frames_data, bin_in.audio,
                       bin_in.compress_frames, -1)
          IN  /\ bin_file' = r.file
              /\ bin_pc' = IF fail_at = -1 THEN "written" ELSE "write_failed"
    /\ UNCHANGED <<bin_in, fast, frame_cache, frame_cached, returned, damage,
                   decode_errors, screen_surface, last_frame,
                   spVars, tmVars, auVars, plVars>>

\* the converter writes the file; a compression error ends the write early
WriteBinary ==
    /\ bin_pc = "start"
    /\ \E fail_at \in {-1} \cup (IF bin_in.compress_frames
                                 THEN 0..(Len(bin_in.frames_data) - 1) ELSE {}) :
          LET r == write_hmicfast_binary(bin_in.w, bin_in.h, bin_in.fps,
                       bin_in.frames_data, bin_in.audio,
                       bin_in.compress_frames, fail_at)
          IN  /\ bin_file' = r.file
              /\ bin_pc' = IF r.ok THEN "written" ELSE "write_failed"
    /\ UNCHANGED <<bin_in, fast, frame_cache, frame_cached, returned, damage,
                   decode_errors, screen_surface, last_frame,
                   spVars, tmVars, auVars, plVars>>

\* the lengths a file of n frames is cut to: empty, inside the magic, inside
\* the header, the header alone, inside the index table, one byte short
TruncateLengths(file, n) ==
    {0, Len(Magic) - 1, Len(Magic) + 1, HeaderSize,
     HeaderSize + EntrySize * n - 1, Len(file) - 1}
    \cap 0..(Len(file) - 1)

\* the file the player is given is not the one the converter wrote: a byte
\* of the magic differs, the file is cut short, or the first byte of a
\* compressed frame differs
Damage ==
    /\ bin_pc = "written"
    /\ LET n == Len(bin_in.frames_data)
           Flip(file, pos) == [file EXCEPT ![pos + 1] = (@ + 1) % 256]
       IN  \/ \E at \in {0, Len(Magic) - 1} :
                /\ damage' = [kind |-> "magic", at |-> at]
                /\ bin_file' = Flip(bin_file, at)
           \/ \E at \in TruncateLengths(bin_file, n) :
                /\ damage' = [kind |-> "truncate", at |-> at]
                /\ bin_file' = SubSeq(bin_file, 1, at)
           \/ \E at \in 0..(n - 1) :
                /\ bin_in.compress_frames
                /\ damage' = [kind |-> "payload", at |-> at]
                /\ bin_file' =
                     Flip(bin_file,
                          EntryAt(bin_file, HeaderSize + EntrySize * at).offset)
    /\ bin_pc' = "damaged"
    /\ UNCHANGED <<bin_in, fast, frame_cache, frame_cached, returned,
                   decode_errors, screen_surface, last_frame,
                   spVars, tmVars, auVars, plVars>>

\* the player loads the file, as written, as an aborted write left it, or
\* damaged; main returns 1 when load_hmicfast returns false
LoadFast ==
    /\ bin_pc \in {"written", "damaged", "write_failed"}
    /\ LET pl == load_hmicfast(bin_file)
           compressed == pl.ok /\ pl.header.compressed # 0
           n == IF compressed THEN pl.header.total_frames ELSE 0
       IN  /\ fast' = pl
           /\ frame_cache' = [i \in 1..n |-> <<>>]
           /\ frame_cached' = [i \in 1..n |-> FALSE]
           /\ bin_pc' = IF ~pl.ok THEN "rejected"
                        ELSE IF bin_pc = "written" THEN "loaded"
                        ELSE IF bin_pc = "write_failed" THEN "loaded_partial"
                        ELSE "loaded_bad"
    /\ UNCHANGED <<bin_in, bin_file, returned, damage, decode_errors,
                   screen_surface, last_frame,
                   spVars, tmVars, auVars, plVars>>

\* one call of get_frame_data, on any index up to total_frames
GetFrame(frame_idx) ==
    /\ bin_pc \in {"loaded", "loaded_bad"}
    /\ LET r == get_frame_data(bin_file, fast, frame_cache, frame_cached, frame_idx)
       IN  /\ returned' = [idx |-> frame_idx, null |-> r.null, fault |-> r.fault,
                           addr |-> r.addr, bytes |-> r.bytes,
                           decoded |-> r.decoded]
           /\ frame_cache' = r.cache
           /\ frame_cached' = r.cached
           /\ decode_errors' = decode_errors
                                 \cup (IF r.error THEN {frame_idx} ELSE {})
    /\ UNCHANGED <<bin_in, bin_file, fast, damage, screen_surface, last_frame,
                   bin_pc, spVars, tmVars, auVars, plVars>>

\* a mutant of RenderFrame: the surface is cleared before the frame is
\* fetched
RenderFrameClears(frame_idx) ==
    /\ bin_pc \in {"loaded", "loaded_bad"}
    /\ last_frame # frame_idx
    /\ LET r == get_frame_data(bin_file, fast, frame_cache, frame_cached, frame_idx)
       IN  /\ returned' = [idx |-> frame_idx, null |-> r.null, fault |-> r.fault,
                           addr |-> r.addr, bytes |-> r.bytes,
                           decoded |-> r.decoded]
           /\ frame_cache' = r.cache
           /\ frame_cached' = r.cached
           /\ decode_errors' = decode_errors
                                 \cup (IF r.error THEN {frame_idx} ELSE {})
           /\ screen_surface' = IF r.null THEN <<>> ELSE r.bytes
    /\ last_frame' = frame_idx
    /\ UNCHANGED <<bin_in, bin_file, fast, damage, bin_pc,
                   spVars, tmVars, auVars, plVars>>

\* main's "render only if frame changed" with render_frame: the frame is
\* fetched and, unless get_frame_data returned nullptr, copied to the
\* surface; last_frame is set either way
RenderFrame(frame_idx) ==
    /\ bin_pc \in {"loaded", "loaded_bad"}
    /\ last_frame # frame_idx
    /\ LET r == get_frame_data(bin_file, fast, frame_cache, frame_cached, frame_idx)
       IN  /\ returned' = [idx |-> frame_idx, null |-> r.null, fault |-> r.fault,
                           addr |-> r.addr, bytes |-> r.bytes,
                           decoded |-> r.decoded]
           /\ frame_cache' = r.cache
           /\ frame_cached' = r.cached
           /\ decode_errors' = decode_errors
                                 \cup (IF r.error THEN {frame_idx} ELSE {})
           /\ screen_surface' = IF r.null THEN screen_surface ELSE r.bytes
    /\ last_frame' = frame_idx
    /\ UNCHANGED <<bin_in, bin_file, fast, damage, bin_pc,
                   spVars, tmVars, auVars, plVars>>

BinaryNext ==
    \/ WriteBinary
    \/ Damage
    \/ LoadFast
    \/ \E i \in 0..MaxBinFrames : GetFrame(i)
    \/ \E i \in 0..MaxBinFrames : RenderFrame(i)

SpecBinary == BinaryInit /\ [][BinaryNext]_vars

\* C5: without compression, get_frame_data(i) on the loaded file returns,
\* for every i in [0, N), a pointer into the mapping whose bytes are the
\* bytes of frame i's input buffer.
C5_RawRoundTrip ==
    (/\ bin_pc = "loaded" /\ ~bin_in.compress_frames
     /\ returned.idx \in 0..(Len(bin_in.frames_data) - 1))
    => /\ ~returned.null /\ ~returned.fault
       /\ returned.addr >= 0
       /\ returned.addr + Len(returned.bytes) <= Len(bin_file)
       /\ returned.bytes = PixelBytes(bin_in.frames_data[returned.idx + 1])
       /\ SubSeq(bin_file, returned.addr + 1, returned.addr + Len(returned.bytes))
             = PixelBytes(bin_in.frames_data[returned.idx + 1])

C5_Witness ==
    /\ bin_pc = "loaded" /\ ~bin_in.compress_frames
    /\ Len(bin_in.frames_data) = 2
    /\ bin_in.frames_data[1] # bin_in.frames_data[2]
    /\ bin_in.audio.present
    /\ returned.idx = 1
    /\ returned.bytes = PixelBytes(bin_in.frames_data[2])

\* C6: with per-frame compression, get_frame_data(i) returns for every i in
\* [0, N) a buffer equal to frame i's input, whatever frames were accessed
\* before and in whatever order; every cached buffer is its own frame's.
C6_CompressedRoundTrip ==
    (bin_pc = "loaded" /\ bin_in.compress_frames)
    => /\ returned.idx \in 0..(Len(bin_in.frames_data) - 1)
          => /\ ~returned.null /\ ~returned.fault
             /\ returned.bytes = PixelBytes(bin_in.frames_data[returned.idx + 1])
             /\ frame_cached[returned.idx + 1]
       /\ \A i \in 1..Len(bin_in.frames_data) :
             frame_cached[i] => frame_cache[i] = PixelBytes(bin_in.frames_data[i])

\* frame 1 accessed first, then frame 0, both now cached
C6_Witness ==
    /\ bin_pc = "loaded" /\ bin_in.compress_frames
    /\ Len(bin_in.frames_data) = 2
    /\ bin_in.frames_data[1] # bin_in.frames_data[2]
    /\ frame_cached = <<TRUE, TRUE>>
    /\ returned.idx = 0
    /\ returned.bytes = PixelBytes(bin_in.frames_data[1])

(***************************************************************************)
(* The players.  Two threads share FastPlayerState / PlayerState: the      *)
(* control loop of main and SDL's audio thread running audio_callback.     *)
(* "fast" is src/P/play.cpp, "text" is the player of src/unnamed/part_000  *)
(* (both video-led), "audioled" is the second player of                    *)
(* src/P/pre/play.cpp.  The doubles frame_duration_ms = 1000.0 / fps and   *)
(* samples_per_frame = audio_samples / total_frames are kept as exact      *)
(* fractions, and every (int) or (int64_t) cast of a product or quotient   *)
(* of non-negative values is the floor of the exact value.                 *)
(***************************************************************************)

\* want.samples, the sample frames one callback invocation fills
BufferSamples == 2

\* the most milliseconds that pass between two looks at the clock
MaxClockStep == 2

\* the loaded containers: header fields and what main derived from them;
\* max_fps_mode is the playback mode chosen at the start of the player that
\* has one (pre/play.cpp 353-390), here on a clip without audio
PlayerClips ==
    {
      [mode |-> "fast", total_frames |-> 2, fps |-> 750, has_audio |-> FALSE,
       audio_samples |-> 0, audio_sample_rate |-> 0, audio_channels |-> 0,
       loop |-> TRUE, max_fps_mode |-> TRUE],
      [mode |-> "fast", total_frames |-> 3, fps |-> 750, has_audio |-> TRUE,
       audio_samples |-> 7, audio_sample_rate |-> 10, audio_channels |-> 2,
       loop |-> TRUE,
       max_fps_mode |-> FALSE],
      [mode |-> "fast", total_frames |-> 1, fps |-> 750, has_audio |-> TRUE,
       audio_samples |-> 5, audio_sample_rate |-> 20, audio_channels |-> 1,
       loop |-> TRUE,
       max_fps_mode |-> FALSE],
      [mode |-> "text", total_frames |-> 11, fps |-> 750, has_audio |-> TRUE,
       audio_samples |-> 13, audio_sample_rate |-> 20, audio_channels |-> 1,
       loop |-> FALSE,
       max_fps_mode |-> FALSE],
      [mode |-> "text", total_frames |-> 3, fps |-> 750, has_audio |-> TRUE,
       audio_samples |-> 7, audio_sample_rate |-> 10, audio_channels |-> 2,
       loop |-> TRUE,
       max_fps_mode |-> FALSE],
      [mode |-> "audioled", total_frames |-> 3, fps |-> 750,
       has_audio |-> TRUE, audio_samples |-> 7, audio_sample_rate |-> 10,
       audio_channels |-> 1, loop |-> TRUE,
       max_fps_mode |-> FALSE],
      [mode |-> "audioled", total_frames |-> 2, fps |-> 750,
       has_audio |-> FALSE, audio_samples |-> 0, audio_sample_rate |-> 0,
       audio_channels |-> 0, loop |-> TRUE,
       max_fps_mode |-> FALSE] }

\* (int64_t)(frame * samples_per_frame); samples_per_frame is set when the
\* clip is loaded and stays 0 for a clip without audio
TargetSample(frame) ==
    IF player.audio_samples > 0
    THEN (frame * player.audio_samples) \div player.total_frames
    ELSE 0

\* (int)(frame * frame_duration_ms), the milliseconds start_time is set back
ElapsedFrames(frame) == (frame * 1000) \div player.fps

\* (int)(elapsed_ms / frame_duration_ms)
TargetFrame(ms) == (ms * player.fps) \div 1000

\* the clips the scheduled players are run on: one short clip per player
\* and, for the audio-led player, one with and one without audio
LiveClips ==
    {
      [mode |-> "fast", total_frames |-> 2, fps |-> 750, has_audio |-> FALSE,
       audio_samples |-> 0, audio_sample_rate |-> 0, audio_channels |-> 0,
       loop |-> TRUE, max_fps_mode |-> TRUE],
      [mode |-> "fast", total_frames |-> 1, fps |-> 750, has_audio |-> TRUE,
       audio_samples |-> 5, audio_sample_rate |-> 20, audio_channels |-> 1,
       loop |-> TRUE,
       max_fps_mode |-> FALSE],
      [mode |-> "text", total_frames |-> 2, fps |-> 750, has_audio |-> TRUE,
       audio_samples |-> 3, audio_sample_rate |-> 10, audio_channels |-> 1,
       loop |-> FALSE,
       max_fps_mode |-> FALSE],
      [mode |-> "audioled", total_frames |-> 2, fps |-> 750,
       has_audio |-> TRUE, audio_samples |-> 3, audio_sample_rate |-> 10,
       audio_channels |-> 1, loop |-> TRUE,
       max_fps_mode |-> FALSE],
      [mode |-> "audioled", total_frames |-> 2, fps |-> 750,
       has_audio |-> FALSE, audio_samples |-> 0, audio_sample_rate |-> 0,
       audio_channels |-> 0, loop |-> TRUE,
       max_fps_mode |-> FALSE] }

\* a mutant of PlayerStart: has_audio is left set when the device did not
\* open
PlayerStartKeepsAudio(clips) ==
    /\ \E clip \in clips : \E opened \in BOOLEAN :
          /\ clip.has_audio \/ opened
          /\ player = clip
          /\ audio_device = (IF clip.has_audio /\ opened THEN 1 ELSE 0)
    /\ playing = TRUE /\ quit = FALSE
    /\ current_frame = 0 /\ elapsed_ms = 0 /\ target_audio_sample = 0
    /\ audio_sample_pos = 0 /\ audio_sample_index = 0
    /\ audio_frame_position = 0 /\ event = "none" /\ ctl_pc = "poll"
    /\ cb_pc = "wait" /\ cb_target = 0 /\ cb_drift = 0 /\ cb_i = 0
    /\ cb_ops = {}
    /\ mapped_data = TRUE
    /\ oob_read = FALSE
    /\ SpatialIdle /\ TemporalIdle /\ AudioIdle /\ BinaryIdle

\* the state main enters its loop with, for a clip of the given set: a clip
\* with audio has had SDL_OpenAudioDevice called, which returned a device
\* or 0; on 0 has_audio is cleared
PlayerStart(clips) ==
    /\ \E clip \in clips : \E opened \in BOOLEAN :
          /\ clip.has_audio \/ opened
          /\ player = [clip EXCEPT !.has_audio = clip.has_audio /\ opened]
          /\ audio_device = (IF clip.has_audio /\ opened THEN 1 ELSE 0)
    /\ playing = TRUE /\ quit = FALSE
    /\ current_frame = 0 /\ elapsed_ms = 0 /\ target_audio_sample = 0
    /\ audio_sample_pos = 0 /\ audio_sample_index = 0
    /\ audio_frame_position = 0 /\ event = "none" /\ ctl_pc = "poll"
    /\ cb_pc = "wait" /\ cb_target = 0 /\ cb_drift = 0 /\ cb_i = 0
    /\ cb_ops = {}
    /\ mapped_data = TRUE
    /\ oob_read = FALSE
    /\ SpatialIdle /\ TemporalIdle /\ AudioIdle /\ BinaryIdle

PlayerInit == PlayerStart(PlayerClips)

\* the variables of the audio callback's invocation
cbVars == <<cb_pc, cb_target, cb_drift, cb_i, cb_ops>>

\* the keys main's switch has a case for
Keys ==
    IF player.mode = "text" THEN {"LEFT", "RIGHT"}
    ELSE {"LEFT", "RIGHT", "UP", "DOWN", "HOME", "END"}

\* the frame a seek key assigns to current_frame
SeekFrame(key) ==
    LET last == player.total_frames - 1
        far == player.mode = "text"
    IN  CASE key = "LEFT" ->
               Max2(0, current_frame - (IF far THEN 10 ELSE 1))
          [] key = "RIGHT" ->
               Min2(last, current_frame + (IF far THEN 10 ELSE 1))
          [] key = "UP" -> Min2(last, current_frame + 10)
          [] key = "DOWN" -> Max2(0, current_frame - 10)
          [] key = "HOME" -> 0
          [] key = "END" -> last

\* case SDLK_SPACE
KeySpace ==
    /\ ctl_pc = "poll"
    /\ playing' = ~playing
    /\ elapsed_ms' = IF playing' /\ player.mode # "audioled"
                        /\ ~player.max_fps_mode
                     THEN ElapsedFrames(current_frame)
                     ELSE elapsed_ms
    /\ event' = "SPACE"
    /\ UNCHANGED <<player, quit, current_frame, target_audio_sample,
                   audio_sample_pos, audio_sample_index,
                   audio_frame_position, ctl_pc, cbVars, oob_read, audio_device, mapped_data,
                   spVars, tmVars, auVars, binVars>>

\* a mutant of KeySeek: the frame is moved without the clamp
KeySeekUnclamped(key) ==
    /\ ctl_pc = "poll"
    /\ player.mode # "audioled"
    /\ key \in Keys
    /\ current_frame' =
          CASE key \in {"LEFT", "DOWN"} -> current_frame - 10
            [] key \in {"RIGHT", "UP"} -> current_frame + 10
            [] OTHER -> SeekFrame(key)
    /\ target_audio_sample' = TargetSample(current_frame')
    /\ elapsed_ms' = IF player.max_fps_mode THEN elapsed_ms
                     ELSE ElapsedFrames(current_frame')
    /\ event' = key
    /\ UNCHANGED <<player, playing, quit, audio_sample_pos,
                   audio_sample_index, audio_frame_position, ctl_pc, cbVars,
                   oob_read, audio_device, mapped_data,
                   spVars, tmVars, auVars, binVars>>

\* case SDLK_LEFT, RIGHT, UP, DOWN, HOME, END of the video-led players
KeySeek(key) ==
    /\ ctl_pc = "poll"
    /\ player.mode # "audioled"
    /\ key \in Keys
    /\ current_frame' = SeekFrame(key)
    /\ target_audio_sample' =
          IF key = "HOME" THEN 0 ELSE TargetSample(current_frame')
    /\ elapsed_ms' =
          IF key = "HOME" THEN 0
          ELSE IF player.max_fps_mode THEN elapsed_ms
          ELSE ElapsedFrames(current_frame')
    /\ event' = key
    /\ UNCHANGED <<player, playing, quit, audio_sample_pos,
                   audio_sample_index, audio_frame_position, ctl_pc, cbVars,
                   oob_read, audio_device, mapped_data,
                   spVars, tmVars, auVars, binVars>>

\* the same keys in the audio-led player: the seek moves the callback's
\* cursor and the published position from the control thread
AudioLedSeek(key) ==
    /\ ctl_pc = "poll"
    /\ player.mode = "audioled"
    /\ key \in Keys
    /\ current_frame' = SeekFrame(key)
    /\ IF player.has_audio
       THEN /\ audio_sample_index' =
                  IF key = "HOME" THEN 0 ELSE TargetSample(current_frame')
            /\ audio_frame_position' = current_frame'
       ELSE UNCHANGED <<audio_sample_index, audio_frame_position>>
    /\ event' = key
    /\ UNCHANGED <<player, playing, quit, elapsed_ms, target_audio_sample,
                   audio_sample_pos, ctl_pc, cbVars, oob_read,
                   audio_device, mapped_data,
                   spVars, tmVars, auVars, binVars>>

\* case SDLK_r
KeyR ==
    /\ ctl_pc = "poll"
    /\ current_frame' = 0
    /\ IF player.mode # "audioled"
       THEN /\ target_audio_sample' = 0
            /\ audio_sample_pos' = 0
            /\ elapsed_ms' = 0
            /\ UNCHANGED <<audio_sample_index, audio_frame_position>>
       ELSE /\ IF player.has_audio
               THEN audio_sample_index' = 0 /\ audio_frame_position' = 0
               ELSE UNCHANGED <<audio_sample_index, audio_frame_position>>
            /\ UNCHANGED <<target_audio_sample, audio_sample_pos, elapsed_ms>>
    /\ event' = "R"
    /\ UNCHANGED <<player, playing, quit, ctl_pc, cbVars, oob_read, audio_device, mapped_data,
                   spVars, tmVars, auVars, binVars>>

\* SDL_QUIT and case SDLK_ESCAPE
KeyEscape ==
    /\ ctl_pc = "poll"
    /\ quit' = TRUE
    /\ event' = "ESCAPE"
    /\ UNCHANGED <<player, playing, current_frame, elapsed_ms,
                   target_audio_sample, audio_sample_pos, audio_sample_index,
                   audio_frame_position, ctl_pc, cbVars, oob_read, audio_device, mapped_data,
                   spVars, tmVars, auVars, binVars>>

\* the "update frame based on time" block of the video-led loops, up to the
\* store of the new target; d is the time that passed since the last look
Tick(d) ==
    /\ ctl_pc = "poll"
    /\ player.mode # "audioled"
    /\ ~player.max_fps_mode
    /\ IF playing
       THEN LET ms == elapsed_ms + d
                target_frame == TargetFrame(ms)
            IN  /\ elapsed_ms' = ms
                /\ IF target_frame # current_frame
                   THEN /\ current_frame' = target_frame
                        /\ target_audio_sample' = TargetSample(target_frame)
                        /\ ctl_pc' = IF target_frame >= player.total_frames
                                     THEN "wrap" ELSE "render"
                   ELSE /\ ctl_pc' = "render"
                        /\ UNCHANGED <<current_frame, target_audio_sample>>
       ELSE /\ ctl_pc' = "render"
            /\ UNCHANGED <<elapsed_ms, current_frame, target_audio_sample>>
    /\ event' = "none"
    /\ UNCHANGED <<player, playing, quit, audio_sample_pos,
                   audio_sample_index, audio_frame_position, cbVars,
                   oob_read, audio_device, mapped_data,
                   spVars, tmVars, auVars, binVars>>

\* a mutant of MaxFpsTick: the frame counts on past the last frame
MaxFpsTickNoWrap ==
    /\ ctl_pc = "poll"
    /\ player.mode # "audioled"
    /\ player.max_fps_mode
    /\ IF playing
       THEN /\ current_frame' = current_frame + 1
            /\ target_audio_sample' = TargetSample(current_frame')
       ELSE UNCHANGED <<current_frame, target_audio_sample>>
    /\ ctl_pc' = "render"
    /\ event' = "none"
    /\ UNCHANGED <<player, playing, quit, elapsed_ms, audio_sample_pos,
                   audio_sample_index, audio_frame_position, cbVars,
                   oob_read, audio_device, mapped_data,
                   spVars, tmVars, auVars, binVars>>

\* the "update frame" block in max-fps mode: the next frame in every pass
\* of the loop, back to 0 after the last, then the store of its target
MaxFpsTick ==
    /\ ctl_pc = "poll"
    /\ player.mode # "audioled"
    /\ player.max_fps_mode
    /\ IF playing
       THEN /\ current_frame' = IF current_frame + 1 >= player.total_frames
                                THEN 0 ELSE current_frame + 1
            /\ target_audio_sample' = TargetSample(current_frame')
       ELSE UNCHANGED <<current_frame, target_audio_sample>>
    /\ ctl_pc' = "render"
    /\ event' = "none"
    /\ UNCHANGED <<player, playing, quit, elapsed_ms, audio_sample_pos,
                   audio_sample_index, audio_frame_position, cbVars,
                   oob_read, audio_device, mapped_data,
                   spVars, tmVars, auVars, binVars>>

\* a mutant of TickWrap: at the end of a clip that does not loop the frame is
\* pinned but playback is left running
TickWrapKeepsPlaying ==
    /\ ctl_pc = "wrap"
    /\ IF player.mode = "fast" \/ player.loop
       THEN /\ current_frame' = 0
            /\ elapsed_ms' = 0
            /\ target_audio_sample' = 0
            /\ UNCHANGED playing
       ELSE /\ current_frame' = player.total_frames - 1
            /\ UNCHANGED <<playing, elapsed_ms, target_audio_sample>>
    /\ ctl_pc' = "render"
    /\ UNCHANGED <<player, quit, audio_sample_pos, audio_sample_index,
                   audio_frame_position, event, cbVars, oob_read,
                   audio_device, mapped_data,
                   spVars, tmVars, auVars, binVars>>

\* the rest of that block: current_frame >= total_frames
TickWrap ==
    /\ ctl_pc = "wrap"
    /\ IF player.mode = "fast" \/ player.loop
       THEN /\ current_frame' = 0
            /\ elapsed_ms' = 0
            /\ target_audio_sample' = 0
            /\ UNCHANGED playing
       ELSE /\ playing' = FALSE
            /\ current_frame' = player.total_frames - 1
            /\ UNCHANGED <<elapsed_ms, target_audio_sample>>
    /\ ctl_pc' = "render"
    /\ UNCHANGED <<player, quit, audio_sample_pos, audio_sample_index,
                   audio_frame_position, event, cbVars, oob_read,
                   audio_device, mapped_data,
                   spVars, tmVars, auVars, binVars>>

\* "sync video to audio" of the audio-led loop; without audio elapsed_ms
\* is now - last_frame_time
AudioLedTick(d) ==
    /\ ctl_pc = "poll"
    /\ player.mode = "audioled"
    /\ IF ~playing
       THEN UNCHANGED <<current_frame, audio_sample_index,
                        audio_frame_position, elapsed_ms>>
       ELSE IF player.has_audio
       THEN /\ IF audio_frame_position >= player.total_frames
               THEN /\ current_frame' = 0
                    /\ audio_sample_index' = 0
                    /\ audio_frame_position' = 0
               ELSE /\ current_frame' = audio_frame_position
                    /\ UNCHANGED <<audio_sample_index, audio_frame_position>>
            /\ UNCHANGED elapsed_ms
       ELSE /\ IF (elapsed_ms + d) * player.fps >= 1000
               THEN /\ current_frame' =
                          IF current_frame + 1 >= player.total_frames
                          THEN 0 ELSE current_frame + 1
                    /\ elapsed_ms' = 0
               ELSE /\ elapsed_ms' = elapsed_ms + d
                    /\ UNCHANGED current_frame
            /\ UNCHANGED <<audio_sample_index, audio_frame_position>>
    /\ ctl_pc' = "render"
    /\ event' = "none"
    /\ UNCHANGED <<player, playing, quit, target_audio_sample,
                   audio_sample_pos, cbVars, oob_read,
                   audio_device, mapped_data,
                   spVars, tmVars, auVars, binVars>>

\* a mutant of Render: the loop goes on to the next pass whatever quit is
RenderIgnoresQuit(draw) ==
    /\ ctl_pc = "render"
    /\ LET frame_idx == current_frame
           passed == ~(frame_idx < 0 \/ frame_idx >= player.total_frames)
       IN  oob_read' = (oob_read \/ (draw /\ passed
                           /\ frame_idx \notin 0..(player.total_frames - 1)))
    /\ ctl_pc' = "poll"
    /\ UNCHANGED <<player, playing, quit, current_frame, elapsed_ms,
                   target_audio_sample, audio_sample_pos, audio_sample_index,
                   audio_frame_position, event, cbVars, audio_device, mapped_data,
                   spVars, tmVars, auVars, binVars>>

\* the render block and the loop condition while (!quit); whether the
\* frame is drawn in this pass (the frame changed, or 16 ms have passed in
\* the text player) is left open
Render(draw) ==
    /\ ctl_pc = "render"
    /\ LET frame_idx == current_frame
           passed == ~(frame_idx < 0 \/ frame_idx >= player.total_frames)
       IN  oob_read' = (oob_read \/ (draw /\ passed
                           /\ frame_idx \notin 0..(player.total_frames - 1)))
    /\ ctl_pc' = IF quit THEN "exited" ELSE "poll"
    /\ UNCHANGED <<player, playing, quit, current_frame, elapsed_ms,
                   target_audio_sample, audio_sample_pos, audio_sample_index,
                   audio_frame_position, event, cbVars, audio_device, mapped_data,
                   spVars, tmVars, auVars, binVars>>

\* a mutant of CallbackEnter: the invocation goes on while paused
CallbackEnterWhilePaused ==
    /\ cb_pc = "wait"
    /\ audio_device # 0
    /\ cb_pc' = IF ~player.has_audio THEN "wait"
                ELSE IF player.mode = "audioled" THEN "copy" ELSE "load"
    /\ cb_target' = 0 /\ cb_drift' = 0 /\ cb_i' = 0
    /\ cb_ops' = IF cb_pc' # "wait" /\ player.mode = "text"
                 THEN {"mutex"} ELSE {}
    /\ UNCHANGED <<player, playing, quit, current_frame, elapsed_ms,
                   target_audio_sample, audio_sample_pos, audio_sample_index,
                   audio_frame_position, event, ctl_pc, oob_read,
                   audio_device, mapped_data,
                   spVars, tmVars, auVars, binVars>>

\* audio_callback is invoked: memset and the early return
CallbackEnter ==
    /\ cb_pc = "wait"
    /\ audio_device # 0
    /\ cb_pc' = IF ~playing \/ ~player.has_audio THEN "wait"
                ELSE IF player.mode = "audioled" THEN "copy" ELSE "load"
    /\ cb_target' = 0 /\ cb_drift' = 0 /\ cb_i' = 0
    /\ cb_ops' = IF cb_pc' # "wait" /\ player.mode = "text"
                 THEN {"mutex"} ELSE {}
    /\ UNCHANGED <<player, playing, quit, current_frame, elapsed_ms,
                   target_audio_sample, audio_sample_pos, audio_sample_index,
                   audio_frame_position, event, ctl_pc, oob_read,
                   audio_device, mapped_data,
                   spVars, tmVars, auVars, binVars>>

\* target = target_audio_sample.load(); drift = target - audio_sample_pos;
\* and the test abs(drift) > sample_rate / 10
CallbackLoad ==
    /\ cb_pc = "load"
    /\ cb_target' = target_audio_sample
    /\ cb_drift' = target_audio_sample - audio_sample_pos
    /\ cb_pc' = IF AbsInt(cb_drift') > player.audio_sample_rate \div 10
                THEN "resync" ELSE "copy"
    /\ UNCHANGED <<player, playing, quit, current_frame, elapsed_ms,
                   target_audio_sample, audio_sample_pos, audio_sample_index,
                   audio_frame_position, event, ctl_pc, cb_i, cb_ops, oob_read, audio_device, mapped_data,
                   spVars, tmVars, auVars, binVars>>

\* a mutant of CallbackResync: the cursor is moved half of the drift
CallbackResyncHalfway ==
    /\ cb_pc = "resync"
    /\ audio_sample_pos' = audio_sample_pos + (cb_drift \div 2)
    /\ cb_pc' = "copy"
    /\ cb_ops' = cb_ops \cup {"io"}
    /\ UNCHANGED <<player, playing, quit, current_frame, elapsed_ms,
                   target_audio_sample, audio_sample_index,
                   audio_frame_position, event, ctl_pc, cb_target, cb_drift,
                   cb_i, oob_read, audio_device, mapped_data,
                   spVars, tmVars, auVars, binVars>>

\* audio_sample_pos = target
CallbackResync ==
    /\ cb_pc = "resync"
    /\ audio_sample_pos' = cb_target
    /\ cb_pc' = "copy"
    /\ cb_ops' = cb_ops \cup {"io"}
    /\ UNCHANGED <<player, playing, quit, current_frame, elapsed_ms,
                   target_audio_sample, audio_sample_index,
                   audio_frame_position, event, ctl_pc, cb_target, cb_drift,
                   cb_i, oob_read, audio_device, mapped_data,
                   spVars, tmVars, auVars, binVars>>

\* what one pass of the copy loop leaves in the cursor of a video-led
\* player: audio_sample_pos++ and the wrap
NextSamplePos(pos) ==
    IF (player.mode = "fast" \/ player.loop) /\ pos + 1 >= player.audio_samples
    THEN 0 ELSE pos + 1

\* a mutant of CallbackSample: the sample is read without the range test
CallbackSampleUnchecked ==
    /\ cb_pc = "copy"
    /\ player.mode # "audioled"
    /\ LET passed == TRUE
           read == IF player.mode = "fast"
                   THEN {audio_sample_pos * player.audio_channels + ch :
                            ch \in 0..(player.audio_channels - 1)}
                   ELSE {audio_sample_pos}
           held == IF player.mode = "fast"
                   THEN 0..(player.audio_samples * player.audio_channels - 1)
                   ELSE 0..(player.audio_samples - 1)
       IN  oob_read' = (oob_read \/ (passed /\ ~(read \subseteq held)))
    /\ audio_sample_pos' = NextSamplePos(audio_sample_pos)
    /\ IF cb_i + 1 < BufferSamples
       THEN cb_i' = cb_i + 1 /\ UNCHANGED <<cb_pc, cb_target, cb_drift, cb_ops>>
       ELSE /\ cb_pc' = "wait" /\ cb_i' = 0 /\ cb_target' = 0
            /\ cb_drift' = 0 /\ cb_ops' = {}
    /\ UNCHANGED <<player, playing, quit, current_frame, elapsed_ms,
                   target_audio_sample, audio_sample_index,
                   audio_frame_position, event, ctl_pc, audio_device, mapped_data,
                   spVars, tmVars, auVars, binVars>>

\* one pass of the copy loop of the video-led players
CallbackSample ==
    /\ cb_pc = "copy"
    /\ player.mode # "audioled"
    /\ LET passed == audio_sample_pos >= 0
                     /\ audio_sample_pos < player.audio_samples
           read == IF player.mode = "fast"
                   THEN {audio_sample_pos * player.audio_channels + ch :
                            ch \in 0..(player.audio_channels - 1)}
                   ELSE {audio_sample_pos}
           held == IF player.mode = "fast"
                   THEN 0..(player.audio_samples * player.audio_channels - 1)
                   ELSE 0..(player.audio_samples - 1)
       IN  oob_read' = (oob_read \/ (passed /\ ~(read \subseteq held)))
    /\ audio_sample_pos' = NextSamplePos(audio_sample_pos)
    /\ IF cb_i + 1 < BufferSamples
       THEN cb_i' = cb_i + 1 /\ UNCHANGED <<cb_pc, cb_target, cb_drift, cb_ops>>
       ELSE /\ cb_pc' = "wait" /\ cb_i' = 0 /\ cb_target' = 0
            /\ cb_drift' = 0 /\ cb_ops' = {}
    /\ UNCHANGED <<player, playing, quit, current_frame, elapsed_ms,
                   target_audio_sample, audio_sample_index,
                   audio_frame_position, event, ctl_pc, audio_device, mapped_data,
                   spVars, tmVars, auVars, binVars>>

\* a mutant of AudioLedSample: the published frame is taken from the cursor
\* before it is advanced
AudioLedSampleLags ==
    /\ cb_pc = "copy"
    /\ player.mode = "audioled"
    /\ LET passed == audio_sample_index >= 0
                     /\ audio_sample_index < player.audio_samples
           read == {audio_sample_index * player.audio_channels + ch :
                       ch \in 0..(player.audio_channels - 1)}
           held == 0..(player.audio_samples * player.audio_channels - 1)
           next == audio_sample_index + 1
       IN  /\ oob_read' = (oob_read \/ (passed /\ ~(read \subseteq held)))
           /\ audio_sample_index' = next
           /\ audio_frame_position' =
                 (audio_sample_index * player.total_frames)
                    \div player.audio_samples
           /\ IF next >= player.audio_samples
              THEN cb_pc' = "loop" /\ UNCHANGED <<cb_i, cb_target, cb_drift, cb_ops>>
              ELSE IF cb_i + 1 < BufferSamples
              THEN cb_i' = cb_i + 1 /\ UNCHANGED <<cb_pc, cb_target, cb_drift, cb_ops>>
              ELSE /\ cb_pc' = "wait" /\ cb_i' = 0 /\ cb_target' = 0
                   /\ cb_drift' = 0 /\ cb_ops' = {}
    /\ UNCHANGED <<player, playing, quit, current_frame, elapsed_ms,
                   target_audio_sample, audio_sample_pos, event, ctl_pc,
                   audio_device, mapped_data,
                   spVars, tmVars, auVars, binVars>>

\* one pass of the copy loop of the audio-led player up to its "loop if
\* needed" test: the cursor moves and the frame it is in is stored to the
\* atomic audio_frame_position
AudioLedSample ==
    /\ cb_pc = "copy"
    /\ player.mode = "audioled"
    /\ LET passed == audio_sample_index >= 0
                     /\ audio_sample_index < player.audio_samples
           read == {audio_sample_index * player.audio_channels + ch :
                       ch \in 0..(player.audio_channels - 1)}
           held == 0..(player.audio_samples * player.audio_channels - 1)
           next == audio_sample_index + 1
       IN  /\ oob_read' = (oob_read \/ (passed /\ ~(read \subseteq held)))
           /\ audio_sample_index' = next
           /\ audio_frame_position' =
                 (next * player.total_frames) \div player.audio_samples
           /\ IF next >= player.audio_samples
              THEN cb_pc' = "loop" /\ UNCHANGED <<cb_i, cb_target, cb_drift, cb_ops>>
              ELSE IF cb_i + 1 < BufferSamples
              THEN cb_i' = cb_i + 1 /\ UNCHANGED <<cb_pc, cb_target, cb_drift, cb_ops>>
              ELSE /\ cb_pc' = "wait" /\ cb_i' = 0 /\ cb_target' = 0
                   /\ cb_drift' = 0 /\ cb_ops' = {}
    /\ UNCHANGED <<player, playing, quit, current_frame, elapsed_ms,
                   target_audio_sample, audio_sample_pos, event, ctl_pc,
                   audio_device, mapped_data,
                   spVars, tmVars, auVars, binVars>>

\* the rest of that pass at the end of the track: cursor and published
\* frame go back to 0
AudioLedLoop ==
    /\ cb_pc = "loop"
    /\ audio_sample_index' = 0
    /\ audio_frame_position' = 0
    /\ IF cb_i + 1 < BufferSamples
       THEN cb_pc' = "copy" /\ cb_i' = cb_i + 1
            /\ UNCHANGED <<cb_target, cb_drift, cb_ops>>
       ELSE /\ cb_pc' = "wait" /\ cb_i' = 0 /\ cb_target' = 0
            /\ cb_drift' = 0 /\ cb_ops' = {}
    /\ UNCHANGED <<player, playing, quit, current_frame, elapsed_ms,
                   target_audio_sample, audio_sample_pos, event, ctl_pc,
                   oob_read, audio_device, mapped_data,
                   spVars, tmVars, auVars, binVars>>

\* a mutant of CloseAudioDevice: the device is closed under a running
\* callback
CloseAudioDeviceNoWait ==
    /\ ctl_pc = "exited"
    /\ audio_device' = 0
    /\ ctl_pc' = "closed"
    /\ UNCHANGED <<player, playing, quit, current_frame, elapsed_ms,
                   target_audio_sample, audio_sample_pos, audio_sample_index,
                   audio_frame_position, event, cbVars, mapped_data, oob_read,
                   spVars, tmVars, auVars, binVars>>

\* after the loop: if (audio_device != 0) SDL_CloseAudioDevice(audio_device);
\* SDL returns from the call once no callback is running
CloseAudioDevice ==
    /\ ctl_pc = "exited"
    /\ audio_device # 0 => cb_pc = "wait"
    /\ audio_device' = 0
    /\ ctl_pc' = "closed"
    /\ UNCHANGED <<player, playing, quit, current_frame, elapsed_ms,
                   target_audio_sample, audio_sample_pos, audio_sample_index,
                   audio_frame_position, event, cbVars, mapped_data, oob_read,
                   spVars, tmVars, auVars, binVars>>

\* SDL_Quit and cleanup(): the frame cache is freed, the file unmapped and
\* closed; the text player's vectors go when main returns
Cleanup ==
    /\ ctl_pc = "closed"
    /\ mapped_data' = FALSE
    /\ ctl_pc' = "done"
    /\ UNCHANGED <<player, playing, quit, current_frame, elapsed_ms,
                   target_audio_sample, audio_sample_pos, audio_sample_index,
                   audio_frame_position, event, cbVars, audio_device,
                   oob_read, spVars, tmVars, auVars, binVars>>

PlayerNext ==
    \/ KeySpace
    \/ \E key \in Keys : KeySeek(key)
    \/ \E key \in Keys : AudioLedSeek(key)
    \/ KeyR
    \/ KeyEscape
    \/ \E d \in 0..MaxClockStep : Tick(d)
    \/ TickWrap
    \/ MaxFpsTick
    \/ \E d \in 0..MaxClockStep : AudioLedTick(d)
    \/ \E draw \in BOOLEAN : Render(draw)
    \/ CloseAudioDevice
    \/ Cleanup
    \/ CallbackEnter
    \/ CallbackLoad
    \/ CallbackResync
    \/ CallbackSample
    \/ AudioLedSample
    \/ AudioLedLoop

SpecPlayer == PlayerInit /\ [][PlayerNext]_vars

\* the players with both threads scheduled: main keeps running whatever
\* input arrives, an entered callback runs to its return, and
\* SDL_CloseAudioDevice gets its turn between two invocations
SpecPlayerLive ==
    /\ PlayerStart(LiveClips) /\ [][PlayerNext]_vars
    /\ WF_vars(\/ \E d \in 0..MaxClockStep : Tick(d)
               \/ TickWrap
               \/ MaxFpsTick
               \/ \E d \in 0..MaxClockStep : AudioLedTick(d)
               \/ \E draw \in BOOLEAN : Render(draw)
               \/ Cleanup)
    /\ WF_vars(CallbackLoad \/ CallbackResync \/ CallbackSample
               \/ AudioLedSample \/ AudioLedLoop)
    /\ SF_vars(CloseAudioDevice)

\* the cursor after n passes of the copy loop that started at pos
RECURSIVE Consumed(_, _)
Consumed(pos, n) ==
    IF n = 0 THEN pos ELSE Consumed(NextSamplePos(pos), n - 1)

C9_SeekClamps ==
    /\ ~oob_read
    /\ (ctl_pc = "poll" /\ player.mode # "audioled" /\ event \in Keys)
       => /\ current_frame \in 0..(player.total_frames - 1)
          /\ target_audio_sample
               = (current_frame * player.audio_samples) \div player.total_frames

\* a ten-frame seek forward in a three-frame clip stopped at the last frame
C9_Witness ==
    /\ ctl_pc = "poll" /\ player.mode = "text" /\ player.total_frames = 3
    /\ event = "RIGHT" /\ current_frame = 2 /\ target_audio_sample = 4
    /\ ~oob_read

\* C10 as stated: every shared variable has one writing thread; the cursors
\* and the published position change only in steps of the audio callback,
\* the published target and the playing flag only in steps of the control
\* loop.
C10_SingleWriter ==
    [][LET audio_step == cbVars' # cbVars
       IN  /\ audio_sample_pos' # audio_sample_pos => audio_step
           /\ audio_sample_index' # audio_sample_index => audio_step
           /\ audio_frame_position' # audio_frame_position => audio_step
           /\ target_audio_sample' # target_audio_sample => ~audio_step
           /\ playing' # playing => ~audio_step]_vars

\* C11 as stated: on no path through an invocation does the audio callback
\* take a mutex, allocate or do I/O, so at every point of every invocation
\* the operations of that kind it has performed are none.
C11_NeverBlocks == cb_ops = {}

\* C12: the audio device is closed only after the control loop has exited,
\* the mapping and the buffers are released only after the device has been
\* closed, and no callback invocation is running once the device is closed
\* or the memory released.
C12_TeardownOrder ==
    ctl_pc # "idle"
    => /\ (player.has_audio /\ audio_device = 0)
             => ctl_pc \in {"closed", "done"}
       /\ ~mapped_data => (audio_device = 0 /\ ctl_pc = "done")
       /\ cb_pc # "wait" => (audio_device # 0 /\ mapped_data)

\* quit came while audio was playing; the device is closed, the memory
\* released and no callback is left running
C12_Witness ==
    /\ ctl_pc = "done" /\ player.mode = "fast" /\ player.total_frames = 3
    /\ playing /\ quit /\ audio_sample_pos > 0
    /\ audio_device = 0 /\ ~mapped_data /\ cb_pc = "wait"

\* C13: when a tick takes a looping clip past its last frame, the same step
\* that sets current_frame to 0 and resets the wall-clock reference also
\* returns the audio cursor to 0, so that no state has the video clock
\* wrapped and the audio cursor still at the end.
C13_AtomicLoopReset ==
    [][(/\ ctl_pc = "wrap"
        /\ ctl_pc' = "render"
        /\ (player.mode = "fast" \/ player.loop))
       => (/\ current_frame' = 0
           /\ elapsed_ms' = 0
           /\ audio_sample_pos' = 0)]_vars

\* a step of one of the keys that play, seek or restart
PlaySeekRestart == KeySpace \/ (\E key \in Keys : KeySeek(key)) \/ KeyR

\* C14: in the text player with loop disabled, the tick that goes past the
\* last frame pauses playback with current_frame = total_frames - 1, and
\* while paused only a play, seek or restart key changes playing or
\* current_frame.
C14_PausedAtEnd ==
    [][(player.mode = "text" /\ ~player.loop)
       => /\ (ctl_pc = "wrap" /\ ctl_pc' = "render")
             => (~playing' /\ current_frame' = player.total_frames - 1)
          /\ (~playing /\ ~PlaySeekRestart)
             => UNCHANGED <<playing, current_frame>>]_vars

\* the text player paused on the last frame by the tick: the stored target
\* is still the one of the frame past the end
C14_Witness ==
    /\ player.mode = "text" /\ ~player.loop
    /\ ctl_pc = "poll"
    /\ ~playing
    /\ current_frame = player.total_frames - 1
    /\ target_audio_sample >= player.audio_samples
    /\ audio_sample_pos > 0

\* the file the loader was given does not start with the magic
WrongMagic == Mapped(bin_file, 0, Len(Magic)) # Magic

\* C15: loading a file whose first 8 bytes are not "HMICFAST" fails, and the
\* load reads no byte of the mapping after the 8 bytes it compared.
C15_WrongMagicStopsReading ==
    (bin_pc \in {"loaded", "loaded_bad", "rejected"} /\ WrongMagic)
    => /\ bin_pc = "rejected"
       /\ ~fast.ok
       /\ fast.reads \subseteq 0..(Len(Magic) - 1)

\* a two-frame file with the last byte of the magic changed, rejected after
\* the comparison
C15_Witness ==
    /\ bin_pc = "rejected"
    /\ damage = [kind |-> "magic", at |-> Len(Magic) - 1]
    /\ Len(bin_in.frames_data) = 2
    /\ Len(bin_file) > HeaderSize
    /\ fast.reads = 0..(Len(Magic) - 1)

\* C16: after load_hmicfast failed on a wrong magic, the header pointer, the
\* mapped-region pointer and size and the file descriptor have their
\* unloaded values.
C16_NothingRetained ==
    (bin_pc = "rejected" /\ WrongMagic)
    => /\ fast.header_ptr = Unloaded.header_ptr
       /\ fast.mapped_data = Unloaded.mapped_data
       /\ fast.mapped_size = Unloaded.mapped_size
       /\ fast.fd = Unloaded.fd

\* the byte ranges the header and the index of an accepted file declare
DeclaredRanges ==
    LET h == fast.header
        entry(i) == EntryAt(bin_file, fast.frame_index + EntrySize * i)
        frame_addr(i) == fast.frames_base + entry(i).offset
                         - (HeaderSize + EntrySize * h.total_frames)
        frame_len(i) == IF h.compressed # 0 THEN entry(i).size
                        ELSE h.width * h.height * 4
    IN  {<<0, HeaderSize>>,
         <<fast.frame_index, EntrySize * h.total_frames>>}
        \cup {<<frame_addr(i), frame_len(i)>> : i \in 0..(h.total_frames - 1)}
        \cup (IF fast.has_audio
              THEN {<<fast.audio_data, h.audio_samples * h.audio_channels * 4>>}
              ELSE {})

\* C17: load_hmicfast accepts no file shorter than its header, than its
\* index table or than a frame or audio range that header and index
\* declare.
C17_ShortFileRejected ==
    bin_pc \in {"loaded", "loaded_bad"}
    => \A r \in DeclaredRanges : r[1] >= 0 /\ r[1] + r[2] <= Len(bin_file)

\* C18: a decompression error for frame i makes get_frame_data(i) return no
\* buffer and leaves cache entry i absent (no buffer, flag false) and every
\* other entry as it was; the session goes on, and an access to another
\* frame, before or after, returns that frame's pixels.
C18_DecodeErrorIsLocal ==
    [][(bin_pc = "loaded_bad" /\ damage.kind = "payload")
       => LET i == returned'.idx
              n == Len(frame_cache)
          IN  /\ bin_pc' = bin_pc
              /\ i = damage.at
                 => /\ returned'.null
                    /\ i \in decode_errors'
                    /\ frame_cache'[i + 1] = <<>>
                    /\ ~frame_cached'[i + 1]
                    /\ \A j \in (1..n) \ {i + 1} :
                          /\ frame_cache'[j] = frame_cache[j]
                          /\ frame_cached'[j] = frame_cached[j]
              /\ i \in (0..(n - 1)) \ {damage.at}
                 => /\ ~returned'.null
                    /\ returned'.bytes = PixelBytes(bin_in.frames_data[i + 1])
                    /\ frame_cached'[i + 1]]_vars

\* frame 0 does not decompress; after that error frame 1 was fetched and is
\* cached
C18_Witness ==
    /\ bin_pc = "loaded_bad" /\ damage = [kind |-> "payload", at |-> 0]
    /\ Len(bin_in.frames_data) = 2
    /\ decode_errors = {0}
    /\ returned.idx = 1 /\ ~returned.null
    /\ returned.bytes = PixelBytes(bin_in.frames_data[2])
    /\ frame_cache = << <<>>, PixelBytes(bin_in.frames_data[2]) >>
    /\ frame_cached = <<FALSE, TRUE>>

\* C19: when the frame to render cannot be fetched, the surface keeps the
\* pixels it had, those of the frame rendered last, and the session goes
\* on.
C19_KeepsPreviousFrame ==
    [][(bin_pc \in {"loaded", "loaded_bad"} /\ last_frame' # last_frame)
       => /\ bin_pc' = bin_pc
          /\ (returned'.null /\ ~returned'.fault)
             => screen_surface' = screen_surface
          /\ damage.kind = "payload"
             => screen_surface' \in
                  {<<>>} \cup {PixelBytes(bin_in.frames_data[j]) :
                                 j \in (1..Len(bin_in.frames_data))
                                       \ {damage.at + 1}}]_vars

\* frame 0 was rendered, then frame 1 failed to decompress: the surface
\* still shows frame 0
C19_Witness ==
    /\ bin_pc = "loaded_bad" /\ damage = [kind |-> "payload", at |-> 1]
    /\ Len(bin_in.frames_data) = 2
    /\ bin_in.frames_data[1] # bin_in.frames_data[2]
    /\ last_frame = 1
    /\ returned.idx = 1 /\ returned.null
    /\ decode_errors = {1}
    /\ screen_surface = PixelBytes(bin_in.frames_data[1])

\* C20: parsing a text in which a numeric token is not a valid number ends
\* in a failed load with a FormatError; it neither terminates the player by
\* an uncaught conversion error nor is the text accepted.
C20_InvalidNumberIsFormatError ==
    tm_pc \in {"terminated", "parsed_garbled", "format_error"}
    => tm_pc = "format_error"

\* C21: a restart sets current_frame, the published target and the audio
\* cursor to 0, and this holds when a callback invocation that was running
\* during the restart returns: that invocation, which loaded a target other
\* than 0 before the restart, leaves the cursor at 0 advanced by no more
\* than the samples it consumed, with current_frame and the target still 0.
C21_RestartResets ==
    [][(/\ player.mode # "audioled"
        /\ event = "R"
        /\ cb_pc = "copy" /\ cb_pc' = "wait"
        /\ cb_target # 0)
       => /\ current_frame' = 0
          /\ target_audio_sample' = 0
          /\ audio_sample_pos' \in
                {Consumed(0, k) : k \in 0..BufferSamples}]_vars

C23_QuitIsTerminal ==
    [][(quit /\ (PlaySeekRestart \/ \E key \in Keys : AudioLedSeek(key)))
       => UNCHANGED <<playing, current_frame, target_audio_sample,
                      audio_sample_pos, audio_sample_index,
                      audio_frame_position>>]_vars

\* C24: in a video-led player the first tick after a resume at frame f or a
\* seek to frame f, with no wall time passed since, computes current_frame
\* = f.
C24_RebasedTickKeepsFrame ==
    [][(/\ player.mode # "audioled"
        /\ event \in Keys \cup {"SPACE"}
        /\ playing
        /\ ctl_pc = "poll" /\ ctl_pc' # "poll"
        /\ elapsed_ms' = elapsed_ms)
       => current_frame' = current_frame]_vars

\* SDL_OpenAudioDevice returned 0 for a clip with audio, and main has not
\* reached its teardown
AudioOpenFailed ==
    /\ player.audio_samples > 0 /\ audio_device = 0
    /\ ctl_pc \in {"poll", "wrap", "render", "exited"}

\* C25: when the audio device did not open, the player runs on without
\* audio: has_audio is false, no callback invocation ever starts and the
\* audio cursors stay where they are, and every tick while playing takes
\* current_frame from the wall clock.
C25_DegradedVideoOnly ==
    [][AudioOpenFailed
       => /\ ~player.has_audio
          /\ cb_pc' = "wait"
          /\ audio_sample_pos' = 0 /\ audio_sample_index' = 0
          /\ (playing /\ ctl_pc = "poll" /\ ctl_pc' # "poll")
             => IF player.mode = "audioled"
                THEN /\ elapsed_ms' * player.fps < 1000
                     /\ elapsed_ms' < elapsed_ms
                        => current_frame' =
                             (current_frame + 1) % player.total_frames
                ELSE current_frame' = TargetFrame(elapsed_ms')]_vars

\* the audio-led player on a clip whose device did not open, two frames on
C25_Witness ==
    /\ AudioOpenFailed /\ ~player.has_audio
    /\ player.mode = "audioled" /\ player.total_frames = 3
    /\ playing /\ ctl_pc = "poll"
    /\ current_frame = 2

\* C26: when the compression of a frame fails, write_hmicfast_binary returns
\* failure and the file holds the first header, without offsets, the
\* reserved index, still zero, and the payloads of the frames before the
\* failing one: no later payload, no audio, no rewritten header or index.
C26_WriteAbortsOnError ==
    bin_pc = "write_failed"
    => LET n == Len(bin_in.frames_data)
           h == HeaderAt(bin_file)
           Payloads(k) ==
               ConcatAll([i \in 1..k |->
                            ZSTD_compress(PixelBytes(bin_in.frames_data[i]))])
       IN  /\ bin_in.compress_frames
           /\ h.magic = Magic /\ h.total_frames = n
           /\ h.frame_index_offset = 0 /\ h.audio_data_offset = 0
           /\ \E k \in 0..(n - 1) :
                 bin_file = SubSeq(bin_file, 1, HeaderSize)
                            \o [i \in 1..(EntrySize * n) |-> 0]
                            \o Payloads(k)

\* the write of a two-frame clip with audio failed at its second frame:
\* the first payload is in the file
C26_Witness ==
    /\ bin_pc = "write_failed"
    /\ Len(bin_in.frames_data) = 2
    /\ bin_in.audio.present
    /\ Len(bin_file) > HeaderSize + EntrySize * 2

\* C27: in a video-led player, at the end of every tick that changed
\* current_frame, a tick that wraps or pins the frame included, the
\* published target is floor(current_frame * samples_per_frame) for the
\* frame the tick ended with.
C27_TargetFollowsFrame ==
    [][(/\ player.mode # "audioled"
        /\ ctl_pc \in {"poll", "wrap"} /\ ctl_pc' = "render"
        /\ (ctl_pc = "wrap" \/ current_frame' # current_frame))
       => target_audio_sample' = TargetSample(current_frame')]_vars

\* C28: in the audio-led player with audio, each pass of the callback's copy
\* loop moves the cursor on by one and publishes floor(cursor /
\* samples_per_frame); each control tick while playing sets current_frame
\* to the published value, or to 0 when that value has reached
\* total_frames; the tick does not use the wall clock.
C28_AudioIsMaster ==
    [][(player.mode = "audioled" /\ player.has_audio)
       => /\ (cb_pc = "copy" /\ (cb_pc' # "copy" \/ cb_i' # cb_i))
             => /\ audio_sample_index' = audio_sample_index + 1
                /\ audio_frame_position' =
                      (audio_sample_index' * player.total_frames)
                         \div player.audio_samples
          /\ (playing /\ ctl_pc = "poll" /\ ctl_pc' = "render")
             => /\ current_frame' =
                      IF audio_frame_position >= player.total_frames
                      THEN 0 ELSE audio_frame_position
                /\ elapsed_ms' = elapsed_ms]_vars

\* the control tick has read the published frame 2 while the cursor is in
\* that frame
C28_Witness ==
    /\ player.mode = "audioled" /\ player.has_audio
    /\ playing /\ ctl_pc = "render"
    /\ current_frame = 2 /\ audio_frame_position = 2
    /\ audio_sample_index = 5
    /\ event = "none"

\* C29: in a file a successful write_hmicfast_binary produced, the index
\* table starts right after the header, entry i holds offset = header size
\* + index table size + the sizes of the frames before i and size = the
\* bytes written for frame i, which lie at that offset, the payloads are
\* disjoint and in frame order, and with audio audio_data_offset is the end
\* of the last payload.
C29_IndexLayout ==
    bin_pc \in {"written", "loaded"}
    => LET n == Len(bin_in.frames_data)
           h == HeaderAt(bin_file)
           e == [i \in 0..(n - 1) |->
                   EntryAt(bin_file, HeaderSize + EntrySize * i)]
           payload(i) ==
               IF bin_in.compress_frames
               THEN ZSTD_compress(PixelBytes(bin_in.frames_data[i + 1]))
               ELSE PixelBytes(bin_in.frames_data[i + 1])
           frames_end == HeaderSize + EntrySize * n
                         + SeqSum([i \in 1..n |-> e[i - 1].size])
       IN  /\ h.frame_index_offset = HeaderSize
           /\ h.total_frames = n
           /\ \A i \in 0..(n - 1) :
                /\ e[i].offset = HeaderSize + EntrySize * n
                                 + SeqSum([j \in 1..i |-> e[j - 1].size])
                /\ e[i].size = Len(payload(i))
                /\ SubSeq(bin_file, e[i].offset + 1, e[i].offset + e[i].size)
                      = payload(i)
                /\ i + 1 < n => e[i].offset + e[i].size <= e[i + 1].offset
           /\ IF h.has_audio # 0
              THEN h.audio_data_offset = frames_end
              ELSE Len(bin_file) = frames_end

\* a written file of two compressed frames of different sizes, with audio
C29_Witness ==
    /\ bin_pc = "written" /\ bin_in.compress_frames
    /\ Len(bin_in.frames_data) = 2
    /\ bin_in.audio.present
    /\ EntryAt(bin_file, HeaderSize).size
          # EntryAt(bin_file, HeaderSize + EntrySize).size

\* C30: once get_frame_data(i) has decompressed frame i successfully, every
\* later call for i returns the cached buffer without calling the
\* decompressor, and no cached entry is dropped or replaced by any access.
C30_DecodedOnce ==
    [][(bin_pc = "loaded" \/ bin_pc = "loaded_bad")
       => (\A i \in 1..Len(frame_cached) :
             frame_cached[i]
             => (/\ frame_cached'[i]
                 /\ frame_cache'[i] = frame_cache[i]
                 /\ (/\ returned'.idx = i - 1
                     /\ <<returned, last_frame>>' # <<returned, last_frame>>)
                    => (/\ ~returned'.decoded
                        /\ ~returned'.null
                        /\ returned'.bytes = frame_cache[i])))]_vars

\* both frames are cached, frame 1 was fetched last; frame 0 is then
\* rendered again from the cache
C30_Witness ==
    /\ bin_pc = "loaded" /\ bin_in.compress_frames
    /\ Len(bin_in.frames_data) = 2
    /\ bin_in.frames_data[1] # bin_in.frames_data[2]
    /\ frame_cached = <<TRUE, TRUE>>
    /\ returned.idx = 0 /\ ~returned.decoded
    /\ last_frame = 0
    /\ screen_surface = frame_cache[1]

(***************************************************************************)
(* The row ranges of the spatial workers.                                  *)
(***************************************************************************)
\* C31: the row ranges [start_row, end_row) of the workers are pairwise
\* disjoint, cover exactly rows 0..h-1, and no worker is handed, or emits a
\* command for, a row at or past h.
C31_DisjointRowRanges ==
    LET n == num_threads
        Rows(t) == StartRow(t, sp_h, n)..(EndRow(t, sp_h, n) - 1)
    IN  /\ \A t \in finished :
              /\ Rows(t) \subseteq 0..(sp_h - 1)
              /\ \A c \in DOMAIN thread_results[t] :
                    \A k \in 1..Len(thread_results[t][c]) :
                       thread_results[t][c][k].y \in 0..(sp_h - 1)
        /\ \A t \in finished : \A u \in finished :
              t # u => Rows(t) \cap Rows(u) = {}
        /\ finished = 0..(n - 1)
              => UNION {Rows(t) : t \in 0..(n - 1)} = 0..(sp_h - 1)

(***************************************************************************)
(* Specification of the frame-range strings: the converter writes a frame  *)
(* list with frames_to_range_string, the text player reads it back with    *)
(* parse_frame_range.                                                      *)
(***************************************************************************)
RECURSIVE Ascending(_)
\* the members of a set of frame numbers in increasing order
Ascending(S) ==
    IF S = {} THEN <<>>
    ELSE LET m == CHOOSE k \in S : \A d \in S : k <= d
         IN  <<m>> \o Ascending(S \ {m})

RangeInit ==
    /\ \E S \in SUBSET (1..MaxFrameNo) : range_frames = Ascending(S)
    /\ range_str = <<>>
    /\ range_parsed = <<>>
    /\ tm_w = 0 /\ tm_h = 0 /\ tm_fps = 0 /\ n_frames = 0
    /\ all_frame_commands = <<>> /\ merged_commands = <<>>
    /\ temporal_commands = <<>> /\ hmic_data = <<>> /\ video_info = <<>>
    /\ frames = <<>> /\ tm_pc = "ranges"
    /\ SpatialIdle /\ AudioIdle /\ BinaryIdle /\ PlayerIdle

WriteRange ==
    /\ tm_pc = "ranges"
    /\ range_str' = frames_to_range_string(range_frames)
    /\ tm_pc' = "range_written"
    /\ UNCHANGED <<tm_w, tm_h, tm_fps, n_frames, all_frame_commands,
                   merged_commands, temporal_commands, hmic_data, video_info,
                   frames, range_frames, range_parsed, spVars, auVars,
                   binVars, plVars>>

ParseRange ==
    /\ tm_pc = "range_written"
    /\ range_parsed' = parse_frame_range(range_str)
    /\ tm_pc' = "range_parsed"
    /\ UNCHANGED <<tm_w, tm_h, tm_fps, n_frames, all_frame_commands,
                   merged_commands, temporal_commands, hmic_data, video_info,
                   frames, range_frames, range_str, spVars, auVars, binVars,
                   plVars>>

SpecRange == RangeInit /\ [][WriteRange \/ ParseRange]_vars

\* the maximal runs of consecutive members of a list, as <<first, last>>
MaximalRuns(fr) ==
    LET S == {fr[i] : i \in 1..Len(fr)}
    IN  {r \in S \X S :
            /\ r[1] <= r[2]
            /\ \A k \in r[1]..r[2] : k \in S
            /\ (r[1] - 1) \notin S
            /\ (r[2] + 1) \notin S}

\* C32: the range string of a strictly increasing list of positive frame
\* numbers is its maximal runs of consecutive integers in order, a run
\* written "a-b" and a lone integer as itself, joined with commas; parsing
\* the string gives back the list.
C32_RangeRoundTrip ==
    LET runs == MaximalRuns(range_frames)
        firsts == Ascending({r[1] : r \in runs})
        LastOf(a) == (CHOOSE r \in runs : r[1] = a)[2]
        Text(a) == IF LastOf(a) = a THEN to_string(a)
                   ELSE to_string(a) \o <<"-">> \o to_string(LastOf(a))
        expected == [k \in 1..Len(firsts) |-> Text(firsts[k])]
    IN  /\ tm_pc \in {"range_written", "range_parsed"}
           => /\ Split(range_str, ",") = expected
              /\ Len(range_str) = SeqSum([k \in 1..Len(expected) |->
                                             Len(expected[k])])
                                  + Max2(0, Len(expected) - 1)
        /\ tm_pc = "range_parsed"
           => /\ range_parsed.ok
              /\ range_parsed.frames = range_frames

C32_Witness ==
    /\ tm_pc = "range_parsed"
    /\ range_frames = <<2, 3, 4, 7, 10, 11>>
    /\ range_str = <<"2", "-", "4", ",", "7", ",", "1", "0", "-", "1", "1">>
    /\ range_parsed.frames = range_frames

\* C33: every command a worker emits for a row of the frame is a maximal
\* run of one color: its span has the color it is filed under, the pixel
\* left of it and the pixel right of it in the row, where they exist,
\* differ; a span of one pixel is written as a P command and a longer one
\* as a PL command from x to end_x; a row of one color and width >= 2 gives
\* exactly one PL command over the whole row.
C33_MaximalRunCommands ==
    LET Pixel(x, y) == frame_pixels[y * sp_w + x + 1]
        InRow(t, y) == {p \in CommandKeys(thread_results[t]) :
                           thread_results[t][p[1]][p[2]].y = y}
    IN  \A t \in finished :
          /\ \A p \in CommandKeys(thread_results[t]) :
                LET color == p[1]
                    c == thread_results[t][p[1]][p[2]]
                    X == to_string(c.x + 1)
                    X2 == to_string(c.end_x + 1)
                    Y == to_string(c.y + 1)
                IN  /\ 0 <= c.x /\ c.x <= c.end_x /\ c.end_x < sp_w
                    /\ c.cmd = IF c.x = c.end_x
                               THEN <<"P", "=">> \o X \o <<"x">> \o Y
                               ELSE <<"P", "L", "=">> \o X \o <<"x">> \o Y
                                    \o <<"-">> \o X2 \o <<"x">> \o Y
                    /\ c.y < sp_h
                       => /\ \A x \in c.x..c.end_x : Pixel(x, c.y) = color
                          /\ c.x > 0 => Pixel(c.x - 1, c.y) # color
                          /\ c.end_x < sp_w - 1 => Pixel(c.end_x + 1, c.y) # color
          /\ \A y \in StartRow(t, sp_h, num_threads)
                        ..(Min2(sp_h, EndRow(t, sp_h, num_threads)) - 1) :
                (sp_w >= 2 /\ \A x \in 0..(sp_w - 1) : Pixel(x, y) = Pixel(0, y))
                => \E p \in InRow(t, y) :
                      /\ InRow(t, y) = {p}
                      /\ thread_results[t][p[1]][p[2]].x = 0
                      /\ thread_results[t][p[1]][p[2]].end_x = sp_w - 1

\* a 3-wide frame: a point between two neighbours of the other color, a
\* two-pixel run next to a point, and the 2x1 red frame's full-row run
C33_Witness ==
    /\ finished = 0..(num_threads - 1)
    /\ sp_w = 3 /\ sp_h = 2 /\ num_threads = 2
    /\ frame_pixels = <<Red, Blue, Red, Red, Red, Blue>>
    /\ Len(thread_results[0][Red]) = 2
    /\ thread_results[1][Red][1].cmd =
          <<"P", "L", "=", "1", "x", "2", "-", "2", "x", "2">>

\* C34: in the video-led players every target the audio callback loads is
\* a sample of the clip, 0 <= target < total_samples, and the control
\* thread never has a target of a frame at or past total_frames published.
C34_TargetInRange ==
    [][(player.mode # "audioled")
       => /\ (cb_pc = "load" /\ cb_pc' # "load")
             => (0 <= cb_target' /\ cb_target' < player.audio_samples)
          /\ target_audio_sample' < Max2(1, player.audio_samples)]_vars

\* C35: the audio callback reads sample data only at positions 0 <=
\* position < total_samples, a cursor outside that range gives silence; and
\* whatever the control thread writes to the cursor while a callback may be
\* between its range test and its read is itself such a position.
C35_ReadsInRange ==
    [][/\ ~oob_read'
       /\ (player.has_audio /\ ctl_pc = "poll" /\ cbVars' = cbVars)
          => /\ audio_sample_pos' # audio_sample_pos
                => audio_sample_pos' \in 0..(player.audio_samples - 1)
             /\ audio_sample_index' # audio_sample_index
                => audio_sample_index' \in 0..(player.audio_samples - 1)]_vars

\* the text player past the end of a track that does not loop: the first
\* pass of an invocation found the cursor at or past total_samples
C35_Witness ==
    /\ player.mode = "text" /\ ~player.loop /\ player.has_audio
    /\ cb_pc = "copy" /\ cb_i = 1
    /\ audio_sample_pos > player.audio_samples
    /\ ~oob_read

\* C36: in every playback mode, whatever ticks, seeks, restarts, loop wraps
\* and pauses came before, current_frame is one of the frames 0 ..
\* total_frames-1 wherever the loop fetches or renders a frame, and no
\* frame outside the container is read.
C36_FrameInRange ==
    /\ ctl_pc = "render" => current_frame \in 0..(player.total_frames - 1)
    /\ ~oob_read

\* the max-fps player back at frame 0 after the last frame of the clip
C36_Witness ==
    /\ player.max_fps_mode /\ player.total_frames = 2
    /\ ctl_pc = "render" /\ playing /\ event = "none"
    /\ current_frame = 0

\* C37: in the audio-led player a seek to frame f is not lost to a callback
\* invocation running at the same time: when the invocation that the seek
\* overlapped returns, the cursor is within one callback buffer of
\* floor(f * samples_per_frame) and the published frame is still one the
\* cursor can have reached from f, so that the next tick does not take
\* current_frame away from the seek.  The seek is known to have overlapped
\* the invocation when the callback stands after its end-of-track test and
\* the cursor is no longer at the end.
C37_SeekNotLost ==
    [][(/\ player.mode = "audioled" /\ player.has_audio
        /\ event \in Keys
        /\ cb_pc = "loop" /\ cb_pc' = "wait"
        /\ audio_sample_index < player.audio_samples)
       => /\ AbsInt(audio_sample_index' - TargetSample(current_frame))
                <= BufferSamples
          /\ audio_frame_position' >= current_frame]_vars

\* a step of the control thread that handles a seek key or R
SeekOrRestart ==
    /\ ctl_pc = "poll" /\ ctl_pc' = "poll" /\ cbVars' = cbVars
    /\ event' \in Keys \cup {"R"}

\* C38 as stated: while paused, current_frame, the audio cursor and the
\* published target and position change only through a seek or a restart.
C38_PausedChangesOnlyBySeek ==
    [][(~playing /\ ~playing' /\ ~SeekOrRestart)
       => UNCHANGED <<current_frame, target_audio_sample, audio_sample_pos,
                      audio_sample_index, audio_frame_position>>]_vars

\* C38 (as amended): while paused, no step but a seek or a restart changes
\* current_frame or the published target; a callback invocation that
\* starts while paused returns at once, so that with no invocation in
\* flight the cursor and the published position stay as they are; only an
\* invocation that was past its test of playing when the pause was set
\* still moves them, up to its return.
C38_PausedFreezes ==
    [][(~playing /\ ~playing' /\ ~SeekOrRestart)
       => /\ UNCHANGED <<current_frame, target_audio_sample>>
          /\ cb_pc = "wait"
             => /\ cb_pc' = "wait"
                /\ UNCHANGED <<audio_sample_pos, audio_sample_index,
                               audio_frame_position>>]_vars

\* the text player paused in the middle of the clip, after a pass of the
\* loop whose tick left the frame alone, no callback running
C38_Witness ==
    /\ player.mode = "text" /\ player.has_audio /\ audio_device # 0
    /\ ~playing /\ ctl_pc = "render" /\ event = "none"
    /\ cb_pc = "wait"
    /\ current_frame = 3 /\ audio_sample_pos > 0

\* C39: load_hmicfast accepts a file the converter left only if the write
\* ran to its end: the header it maps carries the final offsets, rewritten
\* after the last payload; the file of an aborted write is rejected.
C39_PartialFileRejected ==
    /\ bin_pc # "loaded_partial"
    /\ bin_pc = "loaded"
       => /\ fast.header.frame_index_offset = HeaderSize
          /\ \A i \in 1..fast.header.total_frames :
                EntryAt(bin_file, HeaderSize + EntrySize * (i - 1)).size > 0

====
